---- MODULE Spec2Model ----
(***************************************************************************)
(* Normalisation and merge engine of the Tableau metadata catalog:         *)
(* extractors walking the nested workbook document, the per-table CSV      *)
(* merge functions, and the transform_all orchestrator.                    *)
(*                                                                         *)
(* Python values are modelled as follows.  A str is a sequence of one      *)
(* character strings (<<"a","b">> is 'ab'), None is the reserved value     *)
(* None, a dict is a function whose DOMAIN is its key set, a list is a     *)
(* sequence.  A CSV file is the sequence of its lines, the header line     *)
(* first; each line is the sequence of its cells.                          *)
(***************************************************************************)
EXTENDS Integers, Sequences, FiniteSets, TLC

VARIABLES files, config, faults, hist, runs, procs, _active_connections

vars == <<files, config, faults, hist, runs, procs, _active_connections>>

(***************************************************************************)
(* Bounds of the exploration.                                              *)
(***************************************************************************)
MaxBatch == 2
MaxRows == 3

(***************************************************************************)
(* Python strings.                                                         *)
(***************************************************************************)
None == <<"<None>">>

EmptyStr == <<>>

\* str(x): None prints as 'None', a str is itself.
Str(x) == IF x = None THEN <<"N", "o", "n", "e">> ELSE x

\* Truth value of a str or None.
Truthy(x) == x # None /\ x # <<>>

\* `not xs` for a list
ListFalsy(xs) == Len(xs) = 0

\* Code points of the characters that occur in the explored inputs.
CodePoints ==
  (" " :> 32) @@
  ("0" :> 48) @@
  ("1" :> 49) @@
  ("2" :> 50) @@
  ("3" :> 51) @@
  ("4" :> 52) @@
  ("5" :> 53) @@
  ("6" :> 54) @@
  ("7" :> 55) @@
  ("8" :> 56) @@
  ("9" :> 57) @@
  (":" :> 58) @@
  ("A" :> 65) @@
  ("B" :> 66) @@
  ("C" :> 67) @@
  ("D" :> 68) @@
  ("E" :> 69) @@
  ("F" :> 70) @@
  ("G" :> 71) @@
  ("H" :> 72) @@
  ("I" :> 73) @@
  ("J" :> 74) @@
  ("K" :> 75) @@
  ("L" :> 76) @@
  ("M" :> 77) @@
  ("N" :> 78) @@
  ("O" :> 79) @@
  ("P" :> 80) @@
  ("Q" :> 81) @@
  ("R" :> 82) @@
  ("S" :> 83) @@
  ("T" :> 84) @@
  ("U" :> 85) @@
  ("V" :> 86) @@
  ("W" :> 87) @@
  ("X" :> 88) @@
  ("Y" :> 89) @@
  ("Z" :> 90) @@
  ("_" :> 95) @@
  ("a" :> 97) @@
  ("b" :> 98) @@
  ("c" :> 99) @@
  ("d" :> 100) @@
  ("e" :> 101) @@
  ("f" :> 102) @@
  ("g" :> 103) @@
  ("h" :> 104) @@
  ("i" :> 105) @@
  ("j" :> 106) @@
  ("k" :> 107) @@
  ("l" :> 108) @@
  ("m" :> 109) @@
  ("n" :> 110) @@
  ("o" :> 111) @@
  ("p" :> 112) @@
  ("q" :> 113) @@
  ("r" :> 114) @@
  ("s" :> 115) @@
  ("t" :> 116) @@
  ("u" :> 117) @@
  ("v" :> 118) @@
  ("w" :> 119) @@
  ("x" :> 120) @@
  ("y" :> 121) @@
  ("z" :> 122)

Ord(c) == CodePoints[c]

Letters == <<"a", "b", "c", "d", "e", "f", "g", "h", "i", "j", "k", "l", "m", "n", "o", "p", "q", "r", "s", "t", "u", "v", "w", "x", "y", "z">>

\* The character 32 code points up from an upper case letter.
LowerChar(c) ==
  IF Ord(c) >= 65 /\ Ord(c) <= 90
  THEN CHOOSE l \in {Letters[n] : n \in 1..Len(Letters)} : Ord(l) = Ord(c) + 32
  ELSE c

\* str.lower()
Lower(s) == [i \in 1..Len(s) |-> LowerChar(s[i])]

RECURSIVE LStrip(_)
LStrip(s) ==
  IF s # <<>> /\ Head(s) = " " THEN LStrip(Tail(s)) ELSE s

RECURSIVE RStrip(_)
RStrip(s) ==
  IF s # <<>> /\ s[Len(s)] = " " THEN RStrip(SubSeq(s, 1, Len(s) - 1)) ELSE s

\* str.strip()
Strip(s) == RStrip(LStrip(s))

\* a < b for two str values (code point order, shorter prefix first).
RECURSIVE StrLess(_, _)
StrLess(a, b) ==
  IF b = <<>> THEN FALSE
  ELSE IF a = <<>> THEN TRUE
  ELSE IF Ord(Head(a)) # Ord(Head(b)) THEN Ord(Head(a)) < Ord(Head(b))
  ELSE StrLess(Tail(a), Tail(b))

\* dict.get(k, default)
Get(d, k, default) == IF k \in DOMAIN d THEN d[k] ELSE default

\* all([...]) over a list of values
All(xs) == \A i \in 1..Len(xs) : Truthy(xs[i])

(***************************************************************************)
(* sorted(list, key=...): a stable sort, given the list of the keys.       *)
(***************************************************************************)
RECURSIVE InsertIdx(_, _, _)
InsertIdx(p, i, keys) ==
  IF p = <<>> THEN <<i>>
  ELSE IF StrLess(keys[i], keys[Head(p)]) THEN <<i>> \o p
  ELSE <<Head(p)>> \o InsertIdx(Tail(p), i, keys)

RECURSIVE OrderUpTo(_, _)
OrderUpTo(keys, n) ==
  IF n = 0 THEN <<>> ELSE InsertIdx(OrderUpTo(keys, n - 1), n, keys)

Sorted(xs, keys) ==
  LET p == OrderUpTo(keys, Len(xs)) IN [i \in 1..Len(xs) |-> xs[p[i]]]

(***************************************************************************)
(* The csv module.                                                         *)
(***************************************************************************)
AbsentFile == [exists |-> FALSE, lines |-> <<>>]

\* csv.DictWriter.writerow: the cells in fieldnames order, a missing key
\* written as the empty cell, None written as the empty cell.
CsvCell(v) == IF v = None THEN EmptyStr ELSE v

DictWriterRow(fieldnames, d) ==
  [i \in 1..Len(fieldnames) |-> CsvCell(Get(d, fieldnames[i], EmptyStr))]

\* A writer that opens the table file with mode 'w' on every call: the file is
\* truncated and holds the header and the rows of this call only.
WriteCsvTruncating(file, fieldnames, ds, writeHeader) ==
  [exists |-> TRUE,
   lines  |-> <<fieldnames>>
              \o [i \in 1..Len(ds) |-> DictWriterRow(fieldnames, ds[i])]]

\* A writer that writes the header line on every call, also when it appends.
WriteCsvHeaderEachCall(file, fieldnames, ds, writeHeader) ==
  [exists |-> TRUE,
   lines  |-> file.lines \o <<fieldnames>>
              \o [i \in 1..Len(ds) |-> DictWriterRow(fieldnames, ds[i])]]

\* open(path, mode) + writeheader (new file only) + writerows.
WriteCsv(file, fieldnames, ds, writeHeader) ==
  LET DictWriterRows ==
        [i \in 1..Len(ds) |-> DictWriterRow(fieldnames, ds[i])]
  IN
  [exists |-> TRUE,
   lines  |-> (IF writeHeader THEN <<fieldnames>> ELSE file.lines)
              \o DictWriterRows]

DictReader(file) ==
  LET \* csv.DictReader: the first line gives the field names, every further line
      \* a dict from those names to its cells.
      DictReaderRow(fieldnames, line) ==
        [k \in {fieldnames[i] : i \in 1..Len(fieldnames)} |->
           line[CHOOSE i \in 1..Len(fieldnames) : fieldnames[i] = k]]
  IN
  IF Len(file.lines) = 0 THEN <<>>
  ELSE [i \in 1..(Len(file.lines) - 1) |->
          DictReaderRow(file.lines[1], file.lines[i + 1])]

DataRows(file) ==
  IF Len(file.lines) = 0 THEN <<>> ELSE Tail(file.lines)

\* All lists of at most n elements of S.
SeqsUpTo(S, n) == UNION {[1..k -> S] : k \in 0..n}

(***************************************************************************)
(* Configuration (config/csv_exporter.yaml) as load_YAML_config returns    *)
(* it: a dict of sections, or None when the file is missing or unreadable. *)
(***************************************************************************)
NoneDict == [none__ |-> TRUE]

EmptyDict == [k \in {} |-> EmptyStr]

\* `not d` for a dict or None
DictFalsy(d) == "none__" \in DOMAIN d \/ DOMAIN d = {}

\* Every setting the merges read, each with a path or file name.
ConfigFull ==
  [csv_paths |->
     [k \in {"data_folder_path", "temp_subfolder_name",
             "datasources_csv_filename", "connections_csv_filename",
             "tags_csv_filename", "workbook_datasources_csv_filename",
             "datasource_connections_csv_filename"} |-> <<"p">>],
   file_settings |->
     [k \in {"data_folder_path", "temp_subfolder_name", "users_csv_filename",
             "workbooks_csv_filename", "views_csv_filename"} |-> <<"p">>]]

\* Both sections present, the file name settings missing from them.
ConfigNoFilenames ==
  [s \in {"csv_paths", "file_settings"} |->
     [k \in {"data_folder_path", "temp_subfolder_name"} |-> <<"p">>]]

Configs == {NoneDict, ConfigFull, ConfigNoFilenames}

load_YAML_config(cfg) == cfg

\* [setting for setting in required if not section.get(setting)] is empty
HasSettings(section, required) ==
  \A k \in required : Truthy(Get(section, k, None))

(***************************************************************************)
(* Values the extractors compute from the clock and from booleans.         *)
(***************************************************************************)
\* str(datetime.now()): the clock is not modelled, every stamp is one token.
NowStamp == <<"T">>

StrBool(b) == IF b THEN <<"T", "r", "u", "e">> ELSE <<"F", "a", "l", "s", "e">>

(***************************************************************************)
(* What a merge function hands back: the table file as it leaves it, the   *)
(* Python value it returns (a status dict or a bare status string), or the *)
(* fact that it raised.                                                    *)
(***************************************************************************)
ReturnDict(file, d) == [file |-> file, raised |-> FALSE, isdict |-> TRUE, value |-> d]

ReturnStr(file, st) ==
  [file |-> file, raised |-> FALSE, isdict |-> FALSE, value |-> [status |-> st]]

Raise(file) ==
  [file |-> file, raised |-> TRUE, isdict |-> FALSE, value |-> [status |-> "raised"]]

\* x["status"] if isinstance(x, dict) else x
StatusOf(res) == res.value.status

(***************************************************************************)
(* generate_datasources_csv.py                                             *)
(***************************************************************************)
\* fieldnames / CSV_HEADERS of the csv.DictWriter of each merge module
Headers ==
  [datasources |-> <<"datasource_id", "datasource_name", "datasource_type",
      "datasource_has_extracts", "datasource_last_extract_refresh",
      "datasource_creation_date", "datasource_last_modified_date">>,
   connections |-> <<"connection_id", "connection_name", "connection_type",
      "connection_to">>,
   users |-> <<"user_id", "user_name", "user_username", "user_email">>,
   workbooks |-> <<"workbook_id", "workbook_name", "workbook_project_id",
      "workbook_owner_id", "workbook_description", "workbook_created_at",
      "workbook_updated_at", "workbook_url">>,
   views |-> <<"view_id", "view_name", "view_type", "view_created_at",
      "view_updated_at", "view_url">>,
   tags |-> <<"tag_id", "tag_name">>]

RECURSIVE ExistingDatasourceIds(_)
ExistingDatasourceIds(rows) ==
  IF rows = <<>> THEN {}
  ELSE LET datasource_id == Strip(Get(Head(rows), "datasource_id", EmptyStr))
       IN (IF Truthy(datasource_id) THEN {datasource_id} ELSE {})
          \cup ExistingDatasourceIds(Tail(rows))

\* Variant: the existing ids are not read back from the table file.
read_existing_datasources_unread(file) == {}

read_existing_datasources(file) ==
  IF file.exists THEN ExistingDatasourceIds(DictReader(file)) ELSE {}

\* if datasource_id in existing_datasources or datasource_id in
\* seen_datasources.  Variant AlreadyPersisted: the ids seen earlier in the
\* batch are not consulted.
AlreadyPersisted(datasource_id, existing, seen) == datasource_id \in existing

AlreadySeen(datasource_id, existing, seen) ==
  datasource_id \in existing \/ datasource_id \in seen

\* The loop over sorted_datasources; acc carries processed_datasources,
\* seen_datasources and the two counters of the status dict.
RECURSIVE DatasourceLoop(_, _, _)
DatasourceLoop(todo, existing, acc) ==
  LET ProcessDatasource(ds, datasource_id) ==
        [datasource_id |-> datasource_id,
         datasource_name |-> Strip(Str(Get(ds, "name", EmptyStr))),
         datasource_type |-> Strip(Str(Get(ds, "type", EmptyStr))),
         datasource_has_extracts |-> Strip(Str(Get(ds, "has_extracts", EmptyStr))),
         datasource_last_extract_refresh |->
           Strip(Str(Get(ds, "extract_last_refresh_time", EmptyStr))),
         datasource_creation_date |-> Strip(Str(Get(ds, "created_at", EmptyStr))),
         datasource_last_modified_date |->
           Strip(Str(Get(ds, "updated_at", EmptyStr)))]
  IN
  IF todo = <<>> THEN acc
  ELSE
    LET ds == Head(todo)
        datasource_id == Strip(Str(Get(ds, "id", EmptyStr)))
    IN IF ~Truthy(datasource_id)
       THEN DatasourceLoop(Tail(todo), existing, acc)
       ELSE IF AlreadySeen(datasource_id, existing, acc.seen)
       THEN DatasourceLoop(Tail(todo), existing,
              [acc EXCEPT !.skipped_count = @ + 1])
       ELSE DatasourceLoop(Tail(todo), existing,
              [processed |->
                 Append(acc.processed, ProcessDatasource(ds, datasource_id)),
               seen |-> acc.seen \cup {datasource_id},
               processed_count |-> acc.processed_count + 1,
               skipped_count |-> acc.skipped_count])

\* Variant DatasourceSortKeysByName: the batch is ordered by name, so that
\* of two records with one id the one with the smaller name is met first.
DatasourceSortKeysByName(data) ==
  [i \in 1..Len(data) |-> Lower(Str(Get(data[i], "name", EmptyStr)))]

\* key=lambda x: str(x.get('id', '')).lower()
DatasourceSortKeys(data) ==
  [i \in 1..Len(data) |-> Lower(Str(Get(data[i], "id", EmptyStr)))]

generate_datasources_csv_from_config(datasources_data, file, cfg, io) ==
  LET DatasourceStatus(st, acc) ==
        [status |-> st, processed_count |-> acc.processed_count,
         skipped_count |-> acc.skipped_count]
  IN
  LET zero == [processed_count |-> 0, skipped_count |-> 0]
      cfgv == load_YAML_config(cfg)
      file_settings == Get(cfgv, "csv_paths", EmptyDict)
  IN
  IF DictFalsy(cfgv) THEN ReturnDict(file, DatasourceStatus("Failed", zero))
  ELSE IF ~HasSettings(file_settings, {"data_folder_path",
              "temp_subfolder_name", "datasources_csv_filename"})
  THEN ReturnDict(file, DatasourceStatus("Failed", zero))
  ELSE
    LET existing_datasources == read_existing_datasources(file)
        sorted_datasources ==
          Sorted(datasources_data, DatasourceSortKeys(datasources_data))
        acc == DatasourceLoop(sorted_datasources, existing_datasources,
                 [processed |-> <<>>, seen |-> {}, processed_count |-> 0,
                  skipped_count |-> 0])
    IN
    IF acc.processed = <<>>
    THEN ReturnDict(file, DatasourceStatus("Success", acc))
    ELSE IF io = "open_fails"
    THEN ReturnDict(file, DatasourceStatus("Failed", acc))
    ELSE ReturnDict(WriteCsv(file, Headers.datasources, acc.processed,
                             ~file.exists),
                    DatasourceStatus("Success", acc))

(***************************************************************************)
(* generate_connections_csv.py                                             *)
(***************************************************************************)
RECURSIVE ExistingConnectionKeys(_)
ExistingConnectionKeys(rows) ==
  IF rows = <<>> THEN {}
  ELSE LET connection_key ==
             <<Strip(Get(Head(rows), "Connection_Name", EmptyStr)),
               Strip(Get(Head(rows), "Connection_Type", EmptyStr)),
               Strip(Get(Head(rows), "Connection_Target", EmptyStr))>>
       IN (IF All(connection_key) THEN {connection_key} ELSE {})
          \cup ExistingConnectionKeys(Tail(rows))

read_existing_connections(file) ==
  IF file.exists THEN ExistingConnectionKeys(DictReader(file)) ELSE {}

RECURSIVE ConnectionLoop(_, _, _)
ConnectionLoop(todo, existing, acc) ==
  LET ConnectionKey(conn) ==
        <<Strip(Str(Get(conn, "name", EmptyStr))),
          Strip(Str(Get(conn, "connection_type", EmptyStr))),
          Strip(Str(Get(conn, "connects_to", EmptyStr)))>>
      ProcessConnection(conn) ==
        [connection_id |-> Str(Get(conn, "id", EmptyStr)),
         connection_name |-> Str(Get(conn, "name", EmptyStr)),
         connection_type |-> Str(Get(conn, "connection_type", EmptyStr)),
         connection_to |-> Str(Get(conn, "connects_to", EmptyStr))]
  IN
  IF todo = <<>> THEN acc
  ELSE
    LET conn == Head(todo)
        connection_key == ConnectionKey(conn)
    IN IF connection_key \in existing \/ connection_key \in acc.seen
       THEN ConnectionLoop(Tail(todo), existing,
              [acc EXCEPT !.skipped = @ + 1])
       ELSE ConnectionLoop(Tail(todo), existing,
              [processed |-> Append(acc.processed, ProcessConnection(conn)),
               seen |-> acc.seen \cup {connection_key},
               skipped |-> acc.skipped])

generate_connection_csv_from_config(connections_data, file, cfg, io) ==
  LET NameSortKeysLower(data) ==
        [i \in 1..Len(data) |-> Lower(Str(Get(data[i], "name", EmptyStr)))]
      ConnectionStatus(st, total, processed, skipped) ==
        [status |-> st, total_connections |-> total,
         processed_connections |-> processed,
         skipped_connections |-> skipped]
  IN
  LET cfgv == load_YAML_config(cfg)
      file_settings == Get(cfgv, "csv_paths", EmptyDict)
      failed0 == ReturnDict(file, ConnectionStatus("Failed", 0, 0, 0))
  IN
  IF DictFalsy(cfgv) THEN failed0
  ELSE IF ~HasSettings(file_settings, {"data_folder_path",
              "temp_subfolder_name", "connections_csv_filename"})
  THEN failed0
  ELSE IF io = "mkdir_fails" THEN failed0
  ELSE
    LET existing_connections == read_existing_connections(file)
    IN
    IF ListFalsy(connections_data)
    THEN ReturnDict(file, ConnectionStatus("Success", 0, 0, 0))
    ELSE
      LET total == Len(connections_data)
          sorted_connections ==
            Sorted(connections_data, NameSortKeysLower(connections_data))
          acc == ConnectionLoop(sorted_connections, existing_connections,
                   [processed |-> <<>>, seen |-> {}, skipped |-> 0])
      IN
      IF io = "open_fails"
      THEN ReturnDict(file, ConnectionStatus("Failed", total, 0, acc.skipped))
      ELSE ReturnDict(WriteCsv(file, Headers.connections, acc.processed,
                               ~file.exists),
                      ConnectionStatus("Success", total, Len(acc.processed),
                                       acc.skipped))

(***************************************************************************)
(* generate_workbooks_datasources_csv.py and                               *)
(* generate_datasource_connections_csv.py: the two relation merges share   *)
(* their code up to the column names and the shape of the status dict.     *)
(***************************************************************************)
\* f"{rel[left]}:{rel[right]}"
RelationshipKey(rel, left, right) == Str(rel[left]) \o <<":">> \o Str(rel[right])

RECURSIVE ExistingRelationshipKeys(_, _, _)
ExistingRelationshipKeys(rows, left, right) ==
  IF rows = <<>> THEN {}
  ELSE {RelationshipKey(Head(rows), left, right)}
       \cup ExistingRelationshipKeys(Tail(rows), left, right)

read_existing_relationships(file, left, right) ==
  IF file.exists
  THEN ExistingRelationshipKeys(DictReader(file), left, right)
  ELSE {}

\* The duplicate filter: existing_relationships grows as rows are accepted.
RECURSIVE RelationshipLoop(_, _, _, _)
RelationshipLoop(todo, left, right, acc) ==
  IF todo = <<>> THEN acc
  ELSE
    LET rel == Head(todo)
        relationship_key == RelationshipKey(rel, left, right)
    IN IF relationship_key \notin acc.existing
       THEN RelationshipLoop(Tail(todo), left, right,
              [new |-> Append(acc.new, rel),
               existing |-> acc.existing \cup {relationship_key},
               skipped_count |-> acc.skipped_count])
       ELSE RelationshipLoop(Tail(todo), left, right,
              [acc EXCEPT !.skipped_count = @ + 1])

\* sorted(new_relationships, key=lambda x: x[left]) compares the raw values:
\* it raises TypeError when a None takes part in a comparison.
SortRaises(keys) == Len(keys) >= 2 /\ \E i \in 1..Len(keys) : keys[i] = None

RawKeys(data, k) == [i \in 1..Len(data) |-> data[i][k]]

generate_workbook_datasources_csv_from_config(workbook_datasources, file, cfg, io) ==
  LET WorkbookDatasourceStatus(st, total, processed, skipped) ==
        [status |-> st, total_relationships |-> total,
         processed_relationships |-> processed, skipped_relationships |-> skipped]
  IN
  LET total == Len(workbook_datasources)
      cfgv == load_YAML_config(cfg)
      file_settings == Get(cfgv, "csv_paths", EmptyDict)
      failed(skipped) ==
        ReturnDict(file, WorkbookDatasourceStatus("Failed", total, 0, skipped))
  IN
  IF DictFalsy(cfgv) THEN failed(0)
  ELSE IF ~HasSettings(file_settings, {"data_folder_path",
              "temp_subfolder_name", "workbook_datasources_csv_filename"})
  THEN failed(0)
  ELSE IF io = "mkdir_fails" THEN failed(0)
  ELSE
    LET existing_relationships ==
          read_existing_relationships(file, "workbook_id", "datasource_id")
    IN
    IF ListFalsy(workbook_datasources)
    THEN ReturnDict(file, WorkbookDatasourceStatus("Success", total, 0, 0))
    ELSE
      LET acc == RelationshipLoop(workbook_datasources, "workbook_id",
                   "datasource_id",
                   [new |-> <<>>, existing |-> existing_relationships,
                    skipped_count |-> 0])
      IN
      IF acc.new = <<>>
      THEN ReturnDict(file, WorkbookDatasourceStatus("Success", total, 0,
                                                     acc.skipped_count))
      ELSE IF SortRaises(RawKeys(acc.new, "workbook_id"))
      THEN failed(acc.skipped_count)
      ELSE
        LET sorted_data == Sorted(acc.new, RawKeys(acc.new, "workbook_id"))
        IN IF io = "open_fails" THEN failed(acc.skipped_count)
           ELSE ReturnDict(
                  WriteCsv(file, <<"workbook_id", "datasource_id">>,
                           sorted_data, ~file.exists),
                  WorkbookDatasourceStatus("Success", total, Len(acc.new),
                                           acc.skipped_count))

generate_datasource_connections_csv_from_config(datasource_connections, file, cfg, io) ==
  LET DatasourceConnectionStatus(st, wrote, skipped) ==
        [status |-> st, wrote |-> wrote, skipped |-> skipped]
  IN
  LET cfgv == load_YAML_config(cfg)
      file_settings == Get(cfgv, "csv_paths", EmptyDict)
      failed == ReturnDict(file, DatasourceConnectionStatus("Failed", 0, 0))
  IN
  IF DictFalsy(cfgv) THEN failed
  ELSE IF ~HasSettings(file_settings, {"data_folder_path",
              "temp_subfolder_name", "datasource_connections_csv_filename"})
  THEN failed
  ELSE IF io = "mkdir_fails" THEN failed
  ELSE
    LET existing_relationships ==
          read_existing_relationships(file, "datasource_id", "connection_id")
    IN
    IF ListFalsy(datasource_connections)
    THEN ReturnDict(file, DatasourceConnectionStatus("Success", 0, 0))
    ELSE
      LET acc == RelationshipLoop(datasource_connections, "datasource_id",
                   "connection_id",
                   [new |-> <<>>, existing |-> existing_relationships,
                    skipped_count |-> 0])
      IN
      IF acc.new = <<>>
      THEN ReturnDict(file, DatasourceConnectionStatus("Success", 0,
                                                       acc.skipped_count))
      ELSE IF SortRaises(RawKeys(acc.new, "datasource_id")) THEN failed
      ELSE
        LET sorted_data == Sorted(acc.new, RawKeys(acc.new, "datasource_id"))
        IN IF io = "open_fails" THEN failed
           ELSE ReturnDict(
                  WriteCsv(file, <<"datasource_id", "connection_id">>,
                           sorted_data, ~file.exists),
                  DatasourceConnectionStatus("Success", Len(acc.new),
                                             acc.skipped_count))

(***************************************************************************)
(* generate_users_csv.py                                                   *)
(***************************************************************************)
validate_config(cfgv, filename_key) ==
  HasSettings(Get(cfgv, "file_settings", EmptyDict),
              {"data_folder_path", "temp_subfolder_name", filename_key})

\* x.get('name', '').lower() raises AttributeError on a None name.
LowerRaises(data) ==
  \E i \in 1..Len(data) : Get(data[i], "name", EmptyStr) = None

NameSortKeysLowerRaw(data) ==
  [i \in 1..Len(data) |-> Lower(Get(data[i], "name", EmptyStr))]

MapSeq(xs, Op(_)) == [i \in 1..Len(xs) |-> Op(xs[i])]

generate_users_csv_from_config(users_data, file, cfg, io) ==
  LET process_user_data(user) ==
        [user_id |-> Str(Get(user, "id", EmptyStr)),
         user_name |-> Str(Get(user, "name", EmptyStr)),
         user_username |-> Str(Get(user, "username", EmptyStr)),
         user_email |-> Str(Get(user, "email", EmptyStr))]
  IN
  LET cfgv == load_YAML_config(cfg)
  IN
  IF DictFalsy(cfgv) \/ ~validate_config(cfgv, "users_csv_filename")
  THEN ReturnStr(file, "Failed")
  ELSE IF io = "mkdir_fails" THEN ReturnStr(file, "Failed")
  ELSE IF ListFalsy(users_data) THEN ReturnStr(file, "Success")
  ELSE IF LowerRaises(users_data) THEN ReturnStr(file, "Failed")
  ELSE
    LET sorted_users == Sorted(users_data, NameSortKeysLowerRaw(users_data))
        processed_users == MapSeq(sorted_users, process_user_data)
    IN IF io = "open_fails" THEN ReturnStr(file, "Failed")
       ELSE ReturnStr(WriteCsv(file, Headers.users, processed_users,
                               ~file.exists),
                      "Success")

(***************************************************************************)
(* generate_workbooks_csv.py: one open/append per workbook; failing is the *)
(* set of positions (in sorted order) whose write raises.                  *)
(***************************************************************************)
RECURSIVE WorkbookWriteLoop(_, _, _, _)
WorkbookWriteLoop(sorted_workbooks, i, failing, acc) ==
  LET process_workbook_data(workbook) ==
        [workbook_id |-> Str(Get(workbook, "id", EmptyStr)),
         workbook_name |-> Str(Get(workbook, "name", EmptyStr)),
         workbook_project_id |-> Str(Get(workbook, "project_id", EmptyStr)),
         workbook_owner_id |-> Str(Get(workbook, "owner_id", EmptyStr)),
         workbook_description |-> Str(Get(workbook, "description", EmptyStr)),
         workbook_created_at |-> Str(Get(workbook, "created_at", EmptyStr)),
         workbook_updated_at |-> Str(Get(workbook, "updated_at", EmptyStr)),
         workbook_url |-> Str(Get(workbook, "url", EmptyStr))]
  IN
  IF i > Len(sorted_workbooks) THEN acc
  ELSE IF i \in failing
  THEN WorkbookWriteLoop(sorted_workbooks, i + 1, failing, acc)
  ELSE WorkbookWriteLoop(sorted_workbooks, i + 1, failing,
         [file |-> WriteCsv(acc.file, Headers.workbooks,
                            <<process_workbook_data(sorted_workbooks[i])>>,
                            ~acc.file_exists),
          file_exists |-> TRUE,
          successful_writes |-> acc.successful_writes + 1])

generate_workbooks_csv_from_config(workbooks_data, file, cfg, io, failing) ==
  LET cfgv == load_YAML_config(cfg)
  IN
  IF DictFalsy(cfgv) \/ ~validate_config(cfgv, "workbooks_csv_filename")
  THEN ReturnStr(file, "Failed")
  ELSE IF io = "mkdir_fails" THEN ReturnStr(file, "Failed")
  ELSE IF ListFalsy(workbooks_data) THEN ReturnStr(file, "Success")
  ELSE IF LowerRaises(workbooks_data) THEN ReturnStr(file, "Failed")
  ELSE
    LET sorted_workbooks ==
          Sorted(workbooks_data, NameSortKeysLowerRaw(workbooks_data))
        acc == WorkbookWriteLoop(sorted_workbooks, 1, failing,
                 [file |-> file, file_exists |-> file.exists,
                  successful_writes |-> 0])
    IN IF acc.successful_writes = Len(sorted_workbooks)
       THEN ReturnStr(acc.file, "Success")
       ELSE ReturnStr(acc.file, "Partial")

(***************************************************************************)
(* generate_views_csv.py                                                   *)
(***************************************************************************)
\* construct_view_url: the server profile is not modelled; the URL is the
\* site prefix followed by the path ('' when the path is not a str).
construct_view_url(view_path) ==
  IF view_path = None THEN EmptyStr ELSE <<"h">> \o view_path

NameKeysRaw(data) == [i \in 1..Len(data) |-> Get(data[i], "name", EmptyStr)]

generate_views_csv_from_config(views_data, file, cfg, io) ==
  LET \* format_datetime: isoformat of a datetime, '' for anything else.
      format_datetime(dt) == IF dt = None THEN EmptyStr ELSE dt
      ProcessView(view) ==
        [view_id |-> Str(Get(view, "id", EmptyStr)),
         view_name |-> Str(Get(view, "name", EmptyStr)),
         view_type |-> Str(Get(view, "type", EmptyStr)),
         view_created_at |-> format_datetime(Get(view, "created_at", None)),
         view_updated_at |-> format_datetime(Get(view, "updated_at", None)),
         view_url |-> construct_view_url(Get(view, "path", EmptyStr))]
      ViewStatus(st, total, processed) ==
        [status |-> st, total_views |-> total, processed_views |-> processed]
  IN
  LET cfgv == load_YAML_config(cfg)
      file_settings == Get(cfgv, "file_settings", EmptyDict)
      early == ReturnDict(file, ViewStatus("Success", 0, 0))
  IN
  IF DictFalsy(cfgv) THEN early
  ELSE IF ~HasSettings(file_settings, {"data_folder_path",
              "temp_subfolder_name", "views_csv_filename"})
  THEN early
  ELSE IF io = "mkdir_fails" THEN early
  ELSE IF ListFalsy(views_data) THEN early
  ELSE IF SortRaises(NameKeysRaw(views_data)) THEN Raise(file)
  ELSE
    LET total == Len(views_data)
        sorted_views == Sorted(views_data, NameKeysRaw(views_data))
        processed_views == MapSeq(sorted_views, ProcessView)
    IN IF io = "open_fails"
       THEN ReturnDict(file, ViewStatus("Failed", total, 0))
       ELSE ReturnDict(WriteCsv(file, Headers.views, processed_views,
                                ~file.exists),
                       ViewStatus("Success", total, Len(processed_views)))

(***************************************************************************)
(* generate_tags_csv.py                                                    *)
(***************************************************************************)
RECURSIVE ExistingTagNames(_)
ExistingTagNames(rows) ==
  IF rows = <<>> THEN {}
  ELSE LET tag_name == Strip(Get(Head(rows), "tag_name", EmptyStr))
       IN (IF Truthy(tag_name) THEN {tag_name} ELSE {})
          \cup ExistingTagNames(Tail(rows))

read_existing_tags(file) ==
  IF file.exists THEN ExistingTagNames(DictReader(file)) ELSE {}

RECURSIVE TagLoop(_, _, _)
TagLoop(todo, existing, acc) ==
  IF todo = <<>> THEN acc
  ELSE
    LET tag == Head(todo)
        tag_name == Strip(Str(Get(tag, "name", EmptyStr)))
    IN IF tag_name \in existing \/ tag_name \in acc.seen
       THEN TagLoop(Tail(todo), existing, [acc EXCEPT !.skipped = @ + 1])
       ELSE TagLoop(Tail(todo), existing,
              [processed |->
                 Append(acc.processed,
                        [tag_id |-> Str(Get(tag, "id", EmptyStr)),
                         tag_name |-> tag_name]),
               seen |-> acc.seen \cup {tag_name},
               skipped |-> acc.skipped])

generate_tags_csv_from_config(tags_data, file, cfg, io) ==
  LET TagStatus(st, total, processed, skipped) ==
        [status |-> st, total_tags |-> total, processed_tags |-> processed,
         skipped_tags |-> skipped]
  IN
  LET cfgv == load_YAML_config(cfg)
      file_settings == Get(cfgv, "csv_paths", EmptyDict)
      failed0 == ReturnDict(file, TagStatus("Failed", 0, 0, 0))
  IN
  IF DictFalsy(cfgv) THEN failed0
  ELSE IF ~HasSettings(file_settings, {"data_folder_path",
              "temp_subfolder_name", "tags_csv_filename"})
  THEN failed0
  ELSE IF io = "mkdir_fails" THEN failed0
  ELSE
    LET existing_tags == read_existing_tags(file)
    IN
    IF ListFalsy(tags_data)
    THEN ReturnDict(file, TagStatus("Success", 0, 0, 0))
    ELSE IF SortRaises(NameKeysRaw(tags_data)) THEN Raise(file)
    ELSE
      LET total == Len(tags_data)
          sorted_tags == Sorted(tags_data, NameKeysRaw(tags_data))
          acc == TagLoop(sorted_tags, existing_tags,
                   [processed |-> <<>>, seen |-> {}, skipped |-> 0])
      IN IF io = "open_fails"
         THEN ReturnDict(file, TagStatus("Failed", total, 0, acc.skipped))
         ELSE ReturnDict(WriteCsv(file, Headers.tags, acc.processed,
                                  ~file.exists),
                         TagStatus("Success", total, Len(acc.processed),
                                   acc.skipped))

(***************************************************************************)
(* Inputs of the merge functions: the record pools batches are drawn from. *)
(***************************************************************************)
\* The string values of the records and documents below.
Lit ==
  [a |-> <<"a">>, b |-> <<"b">>, x |-> <<"x">>, y |-> <<"y">>, w |-> <<"w">>,
   v |-> <<"v">>, upstream |-> <<"u", "p", "s", "t", "r", "e", "a", "m">>,
   embedded |-> <<"e", "m", "b", "e", "d", "d", "e", "d">>,
   SalesDB |-> <<"S">>, analytics |-> <<"a", "n">>, PostgreSQL |-> <<"P">>,
   Database |-> <<"D">>,
   Dashboard |-> <<"D", "a", "s", "h", "b", "o", "a", "r", "d">>,
   Sheet |-> <<"S", "h", "e", "e", "t">>]

\* str(n) for a natural number
RECURSIVE StrInt(_)
StrInt(n) ==
  LET DigitChar(d) ==
        <<"0", "1", "2", "3", "4", "5", "6", "7", "8", "9">>[d + 1]
  IN
  IF n < 10 THEN <<DigitChar(n)>>
  ELSE StrInt(n \div 10) \o <<DigitChar(n % 10)>>

\* f"conn_{n}"
ConnId(n) == <<"c", "o", "n", "n", "_">> \o StrInt(n)

ConnectionRecord(id, name, ctype, to) ==
  [id |-> id, name |-> name, connection_type |-> ctype, connects_to |-> to]

\* The records the batches of each merge are drawn from.  Datasources: the
\* ids 'A' and ' a' are different keys with equal sort keys up to the
\* blank; ' a' is persisted as 'a'; '' is no id.
Records ==
  LET DatasourceRecord(id, name, type) ==
        [id |-> id, name |-> name, workbook_id |-> Lit.w, path |-> EmptyStr,
         type |-> type, has_extracts |-> StrBool(FALSE),
         extract_last_refresh_time |-> None,
         created_at |-> NowStamp, updated_at |-> NowStamp]
      UserRecord(id, name) ==
        [id |-> id, name |-> name, username |-> name, email |-> EmptyStr]
      WorkbookRecord(id, name) ==
        [id |-> id, name |-> name, description |-> EmptyStr,
         owner_id |-> Lit.a, project_id |-> EmptyStr,
         created_at |-> EmptyStr, updated_at |-> EmptyStr, url |-> EmptyStr]
      ViewRecord(id, name) ==
        [id |-> id, name |-> name, workbook_id |-> Lit.w,
         workbook_name |-> Lit.x, path |-> <<"p">>, type |-> <<"D">>,
         created_at |-> None, updated_at |-> NowStamp, url |-> EmptyStr]
  IN [datasources |->
        {DatasourceRecord(<<"A">>, Lit.x, Lit.upstream),
         DatasourceRecord(<<" ", "a">>, Lit.y, Lit.embedded),
         DatasourceRecord(EmptyStr, Lit.x, Lit.upstream)},
      connections |->
        {ConnectionRecord(ConnId(0), Lit.SalesDB, Lit.PostgreSQL,
                          Lit.Database),
         ConnectionRecord(ConnId(1), Lit.analytics, Lit.PostgreSQL,
                          Lit.Database)},
      workbook_datasources |->
        {[workbook_id |-> Lit.w, datasource_id |-> Lit.a],
         [workbook_id |-> Lit.w, datasource_id |-> Lit.b],
         [workbook_id |-> Lit.v, datasource_id |-> Lit.a]},
      datasource_connections |->
        {[datasource_id |-> Lit.b, connection_id |-> Lit.PostgreSQL],
         [datasource_id |-> Lit.b, connection_id |-> ConnId(0)],
         [datasource_id |-> <<" ", "a">>, connection_id |-> Lit.PostgreSQL]},
      users |->
        {UserRecord(Lit.a, Lit.x), UserRecord(Lit.b, <<"Y">>),
         UserRecord(Lit.b, None)},
      workbooks |-> {WorkbookRecord(Lit.w, Lit.x), WorkbookRecord(Lit.v, <<"Y">>)},
      views |-> {ViewRecord(Lit.a, Lit.x), ViewRecord(Lit.b, None)},
      tags |->
        {[id |-> Lit.a, name |-> Lit.x], [id |-> Lit.b, name |-> Lit.x],
         [id |-> Lit.a, name |-> <<"Y">>]}]

(***************************************************************************)
(* The raw document: raw_data['data']['workbooks'] is a list of workbooks, *)
(* each with an owner, views, tags and upstream/embedded datasources; a    *)
(* datasource lists its upstreamDatabases.  A key a piece does not carry   *)
(* is absent from its dict.                                                *)
(***************************************************************************)
Database(name, connectionType, typename) ==
  [name |-> name, connectionType |-> connectionType, __typename |-> typename]

SalesDB == Database(Lit.SalesDB, Lit.PostgreSQL, Lit.Database)

Datasource(id, name, upstreamDatabases) ==
  [id |-> id, name |-> name, upstreamDatabases |-> upstreamDatabases]

View(id, name, typename) ==
  [id |-> id, name |-> name, path |-> <<"p">>, __typename |-> typename]

Owner(id) == [id |-> id, name |-> Lit.x, username |-> Lit.x, email |-> EmptyStr]

RawWorkbook(id, name, owner, views, tags, upstream, embedded) ==
  [id |-> id, name |-> name, owner |-> owner, views |-> views, tags |-> tags,
   upstreamDatasources |-> upstream, embeddedDatasources |-> embedded]

\* Workbook W1: two upstream datasources, both on the database
\* (SalesDB, PostgreSQL, Database); one dashboard, one tag.
W1 ==
  LET Tag(id, name) == [id |-> id, name |-> name]
  IN
  RawWorkbook(Lit.w, Lit.x, Owner(Lit.a),
    <<View(Lit.a, Lit.x, Lit.Dashboard)>>,
    <<Tag(Lit.a, Lit.x)>>,
    <<Datasource(Lit.a, Lit.x, <<SalesDB>>), Datasource(Lit.b, Lit.y, <<SalesDB>>)>>,
    <<>>)

\* A second workbook on the datasource 'a' of W1, reached through the same
\* database, and with an embedded datasource whose id is padded and whose
\* database is the same one written with a padded name.  Its tag has the
\* name of the tag of W1 and another id.
W2 ==
  LET \* The same database written with a trailing blank in its name.
      SalesDBPadded == Database(Lit.SalesDB \o <<" ">>, Lit.PostgreSQL, Lit.Database)
  IN
  RawWorkbook(Lit.v, <<"Y">>, Owner(Lit.b),
    <<View(Lit.b, <<"Y">>, Lit.Sheet)>>,
    <<[id |-> Lit.b, name |-> Lit.x]>>,
    <<Datasource(Lit.a, Lit.x, <<SalesDB>>)>>,
    <<Datasource(<<" ", "a">>, Lit.y, <<SalesDBPadded>>)>>)

\* A workbook that has no views, no tags and no datasources.
WBare == RawWorkbook(Lit.v, <<"Y">>, Owner(Lit.b), <<>>, <<>>, <<>>, <<>>)

\* A workbook with incomplete pieces: an owner and a tag without id, two
\* dashboards without name, a datasource without id, a database without
\* connectionType.
WOdd ==
  LET \* A database whose connectionType is missing.
      UntypedDB == [name |-> Lit.analytics, __typename |-> Lit.Database]
  IN
  RawWorkbook(Lit.w, Lit.x, [name |-> Lit.x],
    <<[id |-> Lit.a, __typename |-> Lit.Dashboard],
      [id |-> Lit.b, __typename |-> Lit.Dashboard]>>,
    <<[name |-> Lit.y], [id |-> Lit.b]>>,
    <<[name |-> Lit.x, upstreamDatabases |-> <<SalesDB>>],
      Datasource(Lit.b, Lit.y, <<UntypedDB>>)>>,
    <<>>)

\* A workbook that reaches two databases: analytics first, under its
\* upstream datasource, then SalesDB twice.
WTwoDatabases ==
  RawWorkbook(Lit.v, Lit.y, Owner(Lit.b), <<>>, <<>>,
    <<Datasource(Lit.b, Lit.y,
        <<Database(Lit.analytics, Lit.PostgreSQL, Lit.Database), SalesDB>>)>>,
    <<Datasource(Lit.a, Lit.x, <<SalesDB>>)>>)

RawData(workbooks) == [data |-> [workbooks |-> workbooks]]

\* raw_data is None when the metadata query returned nothing.  The last
\* four documents lack the top-level shape: the empty object, an object
\* without 'data', a 'data' object without 'workbooks', and a 'data' object
\* whose 'workbooks' is null (written as the key workbooks__null).
Documents ==
  {NoneDict, RawData(<<>>), RawData(<<W1>>), RawData(<<W1, W2>>),
   RawData(<<W2>>), RawData(<<WBare>>), RawData(<<WOdd>>),
   RawData(<<WTwoDatabases>>),
   EmptyDict, [errors |-> <<>>], [data |-> EmptyDict],
   [data |-> [workbooks__null |-> TRUE]]}

\* isinstance(workbooks, list) fails: 'workbooks' is present and is null.
WorkbooksNotAList(raw_data) ==
  "workbooks__null" \in DOMAIN Get(raw_data, "data", EmptyDict)

\* raw_data.get('data', {}).get('workbooks', [])
WorkbooksOf(raw_data) ==
  Get(Get(raw_data, "data", EmptyDict), "workbooks", <<>>)

\* What an extractor hands back: a list, or the fact that it raised.
Extracted(value) == [raised |-> FALSE, value |-> value]

ExtractorRaised == [raised |-> TRUE, value |-> <<>>]

RECURSIVE Concat(_)
Concat(seqs) ==
  IF seqs = <<>> THEN <<>> ELSE Head(seqs) \o Concat(Tail(seqs))

(***************************************************************************)
(* list_workbooks.py                                                       *)
(***************************************************************************)
\* construct_workbook_url: '' for an empty uri; the server profile is not
\* modelled, the URL of a uri is the site prefix followed by it.
construct_workbook_url(workbook_uri) ==
  IF ~Truthy(workbook_uri) THEN EmptyStr ELSE <<"h">> \o workbook_uri

validate_workbook_data(workbook_info) ==
  Truthy(workbook_info.id) /\ Truthy(workbook_info.name)

get_workbooks(raw_data) ==
  LET WorkbookInfo(workbook_raw) ==
        [id |-> Get(workbook_raw, "id", EmptyStr),
         name |-> Get(workbook_raw, "name", EmptyStr),
         description |-> Get(workbook_raw, "description", EmptyStr),
         owner_id |-> Get(Get(workbook_raw, "owner", EmptyDict), "id", EmptyStr),
         project_id |-> Get(workbook_raw, "projectName", EmptyStr),
         created_at |-> Get(workbook_raw, "createdAt", EmptyStr),
         updated_at |-> Get(workbook_raw, "updatedAt", EmptyStr),
         url |-> construct_workbook_url(Get(workbook_raw, "uri", EmptyStr))]
  IN
  IF DictFalsy(raw_data) THEN ExtractorRaised
  ELSE IF WorkbooksNotAList(raw_data) THEN Extracted(<<>>)
  ELSE
    LET all_workbooks_raw == WorkbooksOf(raw_data)
        infos == [i \in 1..Len(all_workbooks_raw) |->
                    WorkbookInfo(all_workbooks_raw[i])]
    IN Extracted(SelectSeq(infos, validate_workbook_data))

(***************************************************************************)
(* list_views.py                                                           *)
(***************************************************************************)
parse_datetime(dt_string) ==
  LET \* _parse_datetime followed by isoformat: None for a missing or malformed
      \* stamp; a well-formed stamp comes back with its 'Z' spelled '+00:00'.
      IsoStamps == {<<"1", "Z">>}
      ReplaceZ ==
        Concat([i \in 1..Len(dt_string) |->
                  IF dt_string[i] = "Z" THEN <<"+", "0", "0", ":", "0", "0">>
                  ELSE <<dt_string[i]>>])
  IN
  IF ~Truthy(dt_string) THEN None
  ELSE IF dt_string \in IsoStamps THEN ReplaceZ
  ELSE None

get_views(raw_data) ==
  LET DashboardView(workbook, view) ==
        [id |-> Get(view, "id", None),
         name |-> Get(view, "name", None),
         workbook_id |-> Get(workbook, "id", None),
         workbook_name |-> Get(workbook, "name", None),
         path |-> Get(view, "path", EmptyStr),
         type |-> Lit.Dashboard,
         created_at |-> parse_datetime(Get(view, "createdAt", None)),
         updated_at |-> parse_datetime(Get(view, "updatedAt", None)),
         url |-> construct_view_url(Get(view, "path", EmptyStr))]
      DashboardsOf(workbook) ==
        LET views == SelectSeq(Get(workbook, "views", <<>>),
                       LAMBDA view : Get(view, "__typename", None) = Lit.Dashboard)
        IN [i \in 1..Len(views) |-> DashboardView(workbook, views[i])]
  IN
  IF raw_data = NoneDict \/ WorkbooksNotAList(raw_data) THEN ExtractorRaised
  ELSE
    LET workbooks == WorkbooksOf(raw_data)
    IN Extracted(Concat([i \in 1..Len(workbooks) |->
                           DashboardsOf(workbooks[i])]))

(***************************************************************************)
(* list_tags.py and list_workbook_tags.py                                  *)
(***************************************************************************)
get_tags(raw_data) ==
  LET TagsOf(workbook) ==
        LET tags == Get(workbook, "tags", <<>>)
        IN {[id |-> tags[i].id, name |-> tags[i].name] :
              i \in {j \in 1..Len(tags) :
                       /\ Truthy(Get(tags[j], "id", None))
                       /\ Truthy(Get(tags[j], "name", None))}}
      \* The tags are collected in a set of tuples: get_tags returns them in the
      \* iteration order of that set, which is any order.
      TagSet ==
        LET workbooks == WorkbooksOf(raw_data)
        IN UNION {TagsOf(workbooks[i]) : i \in 1..Len(workbooks)}
      Orderings(S) ==
        {f \in [1..Cardinality(S) -> S] :
           \A i, j \in 1..Cardinality(S) : i # j => f[i] # f[j]}
  IN
  IF raw_data = NoneDict \/ WorkbooksNotAList(raw_data) THEN {ExtractorRaised}
  ELSE {Extracted(tag_records) : tag_records \in Orderings(TagSet)}

\* Variant: a relation row only for the tag entries that get_tags keeps
\* (id and name both present).
get_workbook_tags_of_kept_tags(raw_data) ==
  LET workbooks == WorkbooksOf(raw_data)
      KeptOf(workbook) ==
        SelectSeq(Get(workbook, "tags", <<>>),
                  LAMBDA tag : /\ Truthy(Get(tag, "id", None))
                               /\ Truthy(Get(tag, "name", None)))
  IN
  IF raw_data = NoneDict THEN ExtractorRaised
  ELSE IF WorkbooksNotAList(raw_data) THEN Extracted(<<>>)
  ELSE Extracted(Concat([i \in 1..Len(workbooks) |->
         IF ~Truthy(Get(workbooks[i], "id", None)) THEN <<>>
         ELSE [k \in 1..Len(KeptOf(workbooks[i])) |->
                 [workbook_id |-> workbooks[i].id,
                  tag_id |-> KeptOf(workbooks[i])[k].id]]]))

get_workbook_tags(raw_data) ==
  LET WorkbookTagsOf(workbook) ==
        LET workbook_id == Get(workbook, "id", None)
            tags_list == Get(workbook, "tags", <<>>)
        IN IF ~Truthy(workbook_id) THEN <<>>
           ELSE [i \in 1..Len(tags_list) |->
                   [workbook_id |-> workbook_id,
                    tag_id |-> Get(tags_list[i], "id", None)]]
  IN
  IF raw_data = NoneDict THEN ExtractorRaised
  ELSE IF WorkbooksNotAList(raw_data) THEN Extracted(<<>>)
  ELSE
    LET workbooks == WorkbooksOf(raw_data)
    IN Extracted(Concat([i \in 1..Len(workbooks) |->
                           WorkbookTagsOf(workbooks[i])]))

(***************************************************************************)
(* list_connection.py                                                      *)
(***************************************************************************)
DatabasesOf(datasources) ==
  Concat([i \in 1..Len(datasources) |->
            Get(datasources[i], "upstreamDatabases", <<>>)])

\* The databases in the order get_connections visits them: per workbook,
\* those of the upstream datasources, then those of the embedded ones.
DatabasesInOrder(raw_data) ==
  LET workbooks == WorkbooksOf(raw_data)
  IN Concat([i \in 1..Len(workbooks) |->
               DatabasesOf(Get(workbooks[i], "upstreamDatasources", <<>>))
               \o DatabasesOf(Get(workbooks[i], "embeddedDatasources", <<>>))])

\* Variant: the ids are assigned after the sort by name, by position in the
\* sorted list.
get_connections_numbered_after_sort(raw_data) ==
  LET dbs == DatabasesInOrder(raw_data)
      Key(i) ==
        <<Strip(Get(dbs[i], "name", EmptyStr)),
          Strip(Get(dbs[i], "connectionType", EmptyStr)),
          Strip(Get(dbs[i], "__typename", EmptyStr))>>
      first == SelectSeq([i \in 1..Len(dbs) |-> i],
                 LAMBDA i : All(Key(i)) /\ \A j \in 1..(i - 1) : Key(j) # Key(i))
      unsorted == [m \in 1..Len(first) |->
                    ConnectionRecord(EmptyStr, Key(first[m])[1],
                                     Key(first[m])[2], Key(first[m])[3])]
      sorted == Sorted(unsorted, RawKeys(unsorted, "name"))
  IN
  IF raw_data = NoneDict \/ WorkbooksNotAList(raw_data) THEN ExtractorRaised
  ELSE Extracted([m \in 1..Len(sorted) |->
                    [sorted[m] EXCEPT !.id = ConnId(m - 1)]])

get_connections(raw_data) ==
  LET \* db.get(k, '').strip() raises AttributeError on a None value.
      StripRaises(db) ==
        \E k \in {"name", "connectionType", "__typename"} :
          Get(db, k, EmptyStr) = None
      DatabaseKey(db) ==
        <<Strip(Get(db, "name", EmptyStr)),
          Strip(Get(db, "connectionType", EmptyStr)),
          Strip(Get(db, "__typename", EmptyStr))>>
      RECURSIVE UniqueConnections(_, _, _)
      UniqueConnections(dbs, unique_connections, connections) ==
        IF dbs = <<>> THEN connections
        ELSE
          LET db == Head(dbs)
              connection_key == DatabaseKey(db)
          IN IF StripRaises(db) \/ ~All(connection_key)
                \/ connection_key \in unique_connections
             THEN UniqueConnections(Tail(dbs), unique_connections, connections)
             ELSE UniqueConnections(Tail(dbs),
                    unique_connections \cup {connection_key},
                    Append(connections,
                      ConnectionRecord(ConnId(Len(connections)), connection_key[1],
                                       connection_key[2], connection_key[3])))
  IN
  IF raw_data = NoneDict \/ WorkbooksNotAList(raw_data) THEN ExtractorRaised
  ELSE
    LET connections == UniqueConnections(DatabasesInOrder(raw_data), {}, <<>>)
    IN Extracted(Sorted(connections, RawKeys(connections, "name")))

(***************************************************************************)
(* list_datasources.py                                                     *)
(***************************************************************************)
get_datasources(raw_data) ==
  LET ExtractedDatasource(workbook, ds, type) ==
        [id |-> Get(ds, "id", None),
         name |-> Get(ds, "name", None),
         workbook_id |-> Get(workbook, "id", None),
         path |-> Get(ds, "path", EmptyStr),
         type |-> type,
         has_extracts |-> Get(ds, "hasExtracts", StrBool(FALSE)),
         extract_last_refresh_time |->
           parse_datetime(Get(ds, "extractLastRefreshTime", None)),
         created_at |-> NowStamp,
         updated_at |-> NowStamp]
      DatasourcesOf(workbook) ==
        LET upstream == Get(workbook, "upstreamDatasources", <<>>)
            embedded == Get(workbook, "embeddedDatasources", <<>>)
        IN [i \in 1..Len(upstream) |->
              ExtractedDatasource(workbook, upstream[i], Lit.upstream)]
           \o [i \in 1..Len(embedded) |->
                 ExtractedDatasource(workbook, embedded[i], Lit.embedded)]
  IN
  IF raw_data = NoneDict \/ WorkbooksNotAList(raw_data) THEN ExtractorRaised
  ELSE
    LET workbooks == WorkbooksOf(raw_data)
    IN Extracted(Concat([i \in 1..Len(workbooks) |->
                           DatasourcesOf(workbooks[i])]))

(***************************************************************************)
(* list_datasources_connections.py                                         *)
(***************************************************************************)
\* The rows of one datasource: one per upstream database that has a
\* connectionType, which is what the row carries as its connection_id.
DatasourceConnectionsOf(ds) ==
  LET datasource_id == Get(ds, "id", None)
      databases == SelectSeq(Get(ds, "upstreamDatabases", <<>>),
                     LAMBDA db : Truthy(Get(db, "connectionType", None)))
  IN IF ~Truthy(datasource_id) THEN <<>>
     ELSE [i \in 1..Len(databases) |->
             [datasource_id |-> datasource_id,
              connection_id |-> databases[i].connectionType]]

AllDatasourcesOf(workbook) ==
  Get(workbook, "upstreamDatasources", <<>>)
  \o Get(workbook, "embeddedDatasources", <<>>)

get_datasource_connections(raw_data) ==
  IF raw_data = NoneDict \/ WorkbooksNotAList(raw_data) THEN ExtractorRaised
  ELSE
    LET workbooks == WorkbooksOf(raw_data)
        datasources == Concat([i \in 1..Len(workbooks) |->
                                 AllDatasourcesOf(workbooks[i])])
    IN Extracted(Concat([i \in 1..Len(datasources) |->
                           DatasourceConnectionsOf(datasources[i])]))

(***************************************************************************)
(* list_workbook_datasources.py and list_workbook_views.py: the pairs      *)
(* (workbook, child) with both ids present, the first of every unstripped  *)
(* key, emitted with both ids stripped.                                    *)
(***************************************************************************)
ChildPairs(workbook, children) ==
  LET workbook_id == Get(workbook, "id", None)
      with_id == SelectSeq(children, LAMBDA c : Truthy(Get(c, "id", None)))
  IN IF ~Truthy(workbook_id) THEN <<>>
     ELSE [i \in 1..Len(with_id) |-> <<workbook_id, with_id[i].id>>]

RECURSIVE FirstOfEachKey(_, _, _)
FirstOfEachKey(pairs, processed_relationships, relationships) ==
  IF pairs = <<>> THEN relationships
  ELSE
    LET relationship_key == Head(pairs)[1] \o <<":">> \o Head(pairs)[2]
    IN IF relationship_key \in processed_relationships
       THEN FirstOfEachKey(Tail(pairs), processed_relationships,
                           relationships)
       ELSE FirstOfEachKey(Tail(pairs),
              processed_relationships \cup {relationship_key},
              Append(relationships,
                     <<Strip(Head(pairs)[1]), Strip(Head(pairs)[2])>>))

get_workbook_datasources(raw_data) ==
  IF raw_data = NoneDict \/ WorkbooksNotAList(raw_data) THEN Extracted(<<>>)
  ELSE
    LET workbooks == WorkbooksOf(raw_data)
        pairs == Concat([i \in 1..Len(workbooks) |->
                   ChildPairs(workbooks[i], AllDatasourcesOf(workbooks[i]))])
        relationships == FirstOfEachKey(pairs, {}, <<>>)
    IN Extracted([i \in 1..Len(relationships) |->
                    [workbook_id |-> relationships[i][1],
                     datasource_id |-> relationships[i][2]]])

get_workbook_views(raw_data) ==
  IF raw_data = NoneDict \/ WorkbooksNotAList(raw_data) THEN Extracted(<<>>)
  ELSE
    LET workbooks == WorkbooksOf(raw_data)
        pairs == Concat([i \in 1..Len(workbooks) |->
                   ChildPairs(workbooks[i], Get(workbooks[i], "views", <<>>))])
        relationships == FirstOfEachKey(pairs, {}, <<>>)
    IN Extracted([i \in 1..Len(relationships) |->
                    [workbook_id |-> relationships[i][1],
                     view_id |-> relationships[i][2]]])

(***************************************************************************)
(* The owner extractor get_users that transform_all imports is not part of *)
(* the sources; it is taken from the specification of the Owner entity:    *)
(* one record per owner id, an owner without id is dropped.                *)
(***************************************************************************)
get_users(raw_data) ==
  LET RECURSIVE UniqueOwners(_, _, _)
      UniqueOwners(workbooks, seen, users) ==
        IF workbooks = <<>> THEN users
        ELSE
          LET owner == Get(Head(workbooks), "owner", EmptyDict)
              id == Get(owner, "id", None)
          IN IF ~Truthy(id) \/ id \in seen
             THEN UniqueOwners(Tail(workbooks), seen, users)
             ELSE UniqueOwners(Tail(workbooks), seen \cup {id},
                    Append(users,
                      [id |-> id, name |-> Get(owner, "name", EmptyStr),
                       username |-> Get(owner, "username", EmptyStr),
                       email |-> Get(owner, "email", EmptyStr)]))
  IN
  IF raw_data = NoneDict \/ WorkbooksNotAList(raw_data) THEN Extracted(<<>>)
  ELSE Extracted(UniqueOwners(WorkbooksOf(raw_data), {}, <<>>))

(***************************************************************************)
(* The merges of the workbook_views and workbook_tags tables               *)
(* (generate_workbooks_views_csv, generate_workbooks_tags_csv) are not     *)
(* part of the sources; they are taken from the specification of the Merge *)
(* Store: the key of a relation row is the composite of all its columns,   *)
(* incoming rows whose key is persisted are dropped, the others appended,  *)
(* Failed only when the write raises.                                      *)
(***************************************************************************)
merge(columns, incoming_records, file, io) ==
  LET MergeStatus(st, total, new, skipped) ==
        [status |-> st, total |-> total, new |-> new, skipped |-> skipped]
  IN
  LET existing == {DataRows(file)[i] : i \in 1..Len(DataRows(file))}
      new == SelectSeq(incoming_records,
               LAMBDA r : DictWriterRow(columns, r) \notin existing)
      total == Len(incoming_records)
  IN IF new = <<>>
     THEN ReturnDict(file, MergeStatus("Success", total, 0, total))
     ELSE IF io # "ok"
     THEN ReturnDict(file, MergeStatus("Failed", total, 0, total - Len(new)))
     ELSE ReturnDict(WriteCsv(file, columns, new, ~file.exists),
                     MergeStatus("Success", total, Len(new),
                                 total - Len(new)))

generate_workbook_views_csv_from_config(workbook_views, file, cfg, io) ==
  merge(<<"workbook_id", "view_id">>, workbook_views, file, io)

generate_workbook_tags_csv_from_config(workbook_tags, file, cfg, io) ==
  merge(<<"workbook_id", "tag_id">>, workbook_tags, file, io)

(***************************************************************************)
(* The merge of each table.                                                *)
(***************************************************************************)
\* With the table file unwritable every row write of the workbooks merge
\* fails.
MergeFor(t, data, file, cfg, io) ==
  CASE t = "users" -> generate_users_csv_from_config(data, file, cfg, io)
    [] t = "workbooks" ->
         generate_workbooks_csv_from_config(data, file, cfg, io,
           IF io = "open_fails" THEN 1..Len(data) ELSE {})
    [] t = "views" -> generate_views_csv_from_config(data, file, cfg, io)
    [] t = "tags" -> generate_tags_csv_from_config(data, file, cfg, io)
    [] t = "connections" ->
         generate_connection_csv_from_config(data, file, cfg, io)
    [] t = "datasources" ->
         generate_datasources_csv_from_config(data, file, cfg, io)
    [] t = "datasource_connections" ->
         generate_datasource_connections_csv_from_config(data, file, cfg, io)
    [] t = "workbook_views" ->
         generate_workbook_views_csv_from_config(data, file, cfg, io)
    [] t = "workbook_tags" ->
         generate_workbook_tags_csv_from_config(data, file, cfg, io)
    [] t = "workbook_datasources" ->
         generate_workbook_datasources_csv_from_config(data, file, cfg, io)

(***************************************************************************)
(* State.                                                                  *)
(*   files   : table name -> CSV file on disk                              *)
(*   config  : what load_YAML_config returns                               *)
(*   faults  : file system conditions in effect: a table name when that    *)
(*             table's file cannot be opened for writing, "output_dir"     *)
(*             when the output directory cannot be created                 *)
(*   hist    : the last call (arguments and result), <<>> before it        *)
(*   runs    : the number of extraction runs made so far                   *)
(***************************************************************************)
Tables ==
  {"users", "workbooks", "views", "tags", "connections", "datasources",
   "datasource_connections", "workbook_views", "workbook_tags",
   "workbook_datasources"}

FaultKinds == Tables \cup {"output_dir"}

NoFiles == [t \in Tables |-> AbsentFile]

\* What os.makedirs and open(csv_filepath, mode) do for table t.
IOOf(t) ==
  IF "output_dir" \in faults THEN "mkdir_fails"
  ELSE IF t \in faults THEN "open_fails"
  ELSE "ok"

Call(t, batch, io, before, res) ==
  LET \* rerun: this call repeats the batch of the previous call on the table,
      \* that call started from an absent table file and reported Success.
      Rerun ==
        /\ hist # <<>>
        /\ hist[1].table = t
        /\ hist[1].batch = batch
        /\ ~hist[1].before.exists
        /\ ~hist[1].res.raised
        /\ StatusOf(hist[1].res) = "Success"
  IN
  [table |-> t, batch |-> batch, io |-> io, before |-> before, res |-> res,
   rerun |-> Rerun]

\* Merge calls touch only their own table file, so calls on different
\* tables commute; one history follows one table.
MayCall(t, res) ==
  /\ hist # <<>> => hist[1].table = t
  /\ faults \subseteq {t, "output_dir"}
  /\ Len(DataRows(res.file)) <= MaxRows

MergeStep(t, batch, io, res) ==
    /\ MayCall(t, res)
    /\ files' = [files EXCEPT ![t] = res.file]
    /\ hist' = <<Call(t, batch, io, files[t], res)>>
    /\ UNCHANGED <<procs, _active_connections, config, faults, runs>>

\* Datasource batches in which one id comes twice with different attributes
\* (a datasource listed under two workbooks), in both orders.
SameIdBatches ==
  LET first == CHOOSE ds \in Records.datasources : ds.id = <<"A">>
      second == [first EXCEPT !.name = Lit.y, !.type = Lit.embedded]
  IN {<<first, second>>, <<second, first>>}

Merge ==
  \E t \in DOMAIN Records \ {"workbooks"} :
    \E batch \in SeqsUpTo(Records[t], MaxBatch)
                 \cup (IF t = "datasources" THEN SameIdBatches ELSE {}) :
      MergeStep(t, batch, IOOf(t),
                MergeFor(t, batch, files[t], config, IOOf(t)))

\* The writes of the workbooks merge are one open per row: with the file
\* unwritable all of them fail, otherwise the first may (a transient error).
MergeWorkbooks ==
  \E batch \in SeqsUpTo(Records.workbooks, MaxBatch) :
    \E failing \in (IF IOOf("workbooks") = "open_fails"
                     THEN {1..Len(batch)}
                     ELSE {{}, {1} \cap (1..Len(batch))}) :
      /\ MergeStep("workbooks", batch, <<IOOf("workbooks"), failing>>,
           generate_workbooks_csv_from_config(batch, files["workbooks"],
             config, IOOf("workbooks"), failing))

\* The environment: a file or the output directory becomes unusable, or
\* usable again.
InjectFault ==
  \E f \in FaultKinds :
    /\ faults = {}
    /\ hist # <<>> => f \in {hist[1].table, "output_dir"}
    /\ faults' = {f}
    /\ UNCHANGED <<procs, _active_connections, files, config, hist, runs>>

ClearFault ==
  /\ faults # {}
  /\ faults' = {}
  /\ UNCHANGED <<procs, _active_connections, files, config, hist, runs>>

InitMerge ==
  /\ files = NoFiles
  /\ config \in Configs
  /\ faults = {}
  /\ hist = <<>>
  /\ runs = 0
  /\ procs = <<>>
  /\ _active_connections = <<>>

NextMerge ==
  \/ Merge
  \/ MergeWorkbooks
  \/ InjectFault
  \/ ClearFault

SpecMerge == InitMerge /\ [][NextMerge]_vars

(***************************************************************************)
(* transform_all.py: the ten steps in the order of the code.  Each step    *)
(* runs its extractor and, when the extractor yields records, the merge of *)
(* its table; an exception of either ends the run with the results as     *)
(* they stand.                                                             *)
(***************************************************************************)
\* Variant StepsRelationFirst: the workbook_views step moved to the front.
StepsRelationFirst ==
  <<"workbook_views", "users", "workbooks", "views", "tags", "connections",
    "datasources", "datasource_connections", "workbook_tags",
    "workbook_datasources">>

Steps ==
  <<"users", "workbooks", "views", "tags", "connections", "datasources",
    "datasource_connections", "workbook_views", "workbook_tags",
    "workbook_datasources">>

\* Variant: the status dict starts with every entry Success.
InitialResultsSuccess == [k \in Tables \cup {"overall"} |-> "Success"]

\* The results dict as transform_all initialises it ('<table>_status' keys
\* and 'overall_status').
InitialResults == [k \in Tables \cup {"overall"} |-> "Failed"]

ExtractFor(t, raw_data, tag_records) ==
  CASE t = "users" -> get_users(raw_data)
    [] t = "workbooks" -> get_workbooks(raw_data)
    [] t = "views" -> get_views(raw_data)
    [] t = "tags" -> tag_records
    [] t = "connections" -> get_connections(raw_data)
    [] t = "datasources" -> get_datasources(raw_data)
    [] t = "datasource_connections" -> get_datasource_connections(raw_data)
    [] t = "workbook_views" -> get_workbook_views(raw_data)
    [] t = "workbook_tags" -> get_workbook_tags(raw_data)
    [] t = "workbook_datasources" -> get_workbook_datasources(raw_data)

\* "Success" if all(status == "Success" for status in individual_statuses)
\* else "Failed".  Variant OverallIfAnySuccess: any() in place of all().
OverallIfAnySuccess(results) ==
  IF \E t \in Tables : results[t] = "Success" THEN "Success" ELSE "Failed"

OverallStatus(results) ==
  IF \A t \in Tables : results[t] = "Success" THEN "Success" ELSE "Failed"

\* run: files, results, the batch each extractor yielded, the tables whose
\* merge was invoked, the steps in the order they were begun, and whether the
\* run ended in the except clause.
RECURSIVE RunSteps(_, _, _, _, _)
RunSteps(i, raw_data, cfg, tag_records, run) ==
  IF i > Len(Steps)
  THEN [run EXCEPT !.results["overall"] = OverallStatus(run.results)]
  ELSE
    LET t == Steps[i]
        extracted == ExtractFor(t, raw_data, tag_records)
        begun == [run EXCEPT !.started = Append(@, t)]
    IN IF extracted.raised THEN [begun EXCEPT !.raised = TRUE]
       ELSE IF ListFalsy(extracted.value)
       THEN RunSteps(i + 1, raw_data, cfg, tag_records,
              [begun EXCEPT !.batches[t] = extracted.value])
       ELSE
         LET res == MergeFor(t, extracted.value, run.files[t], cfg, IOOf(t))
         IN IF res.raised
            THEN [begun EXCEPT !.batches[t] = extracted.value,
                               !.invoked = @ \cup {t},
                               !.raised = TRUE]
            ELSE RunSteps(i + 1, raw_data, cfg, tag_records,
                   [begun EXCEPT !.batches[t] = extracted.value,
                                 !.invoked = @ \cup {t},
                                 !.files[t] = res.file,
                                 !.results[t] = StatusOf(res)])

transform_all(raw_data, fs, cfg, tag_records) ==
  RunSteps(1, raw_data, cfg, tag_records,
    [files |-> fs, results |-> InitialResults,
     batches |-> [t \in Tables |-> <<>>], invoked |-> {}, started |-> <<>>,
     raised |-> FALSE])

(***************************************************************************)
(* main.py, graphql_to_csv_pipeline, from the point where raw_data has     *)
(* been fetched.  Every step is wrapped in its own try/except, which turns *)
(* an exception into the pair (False, message); the merge is called also   *)
(* with an empty batch.  The closing summary loop unpacks every entry of   *)
(* results as a pair.  The merges are the functions the imported modules   *)
(* define (main.py imports the connections merge under the name            *)
(* generate_connections_csv_from_config).                                  *)
(***************************************************************************)
PipelineSteps == <<"workbooks", "views", "datasources", "connections", "tags">>

FailurePair == [kind |-> "pair", status |-> "Failed"]

RECURSIVE PipelineLoop(_, _, _, _, _)
PipelineLoop(i, raw_data, cfg, tag_records, run) ==
  LET Returned(res) ==
        [kind |-> IF res.isdict THEN "dict" ELSE "str", status |-> StatusOf(res)]
      \* key, (success, msg) = item: a status str ('Success', 'Failed', 'Partial')
      \* and a status dict (five keys or more) do not unpack into two names.
      UnpacksAsPair(entry) == entry.kind = "pair"
  IN
  IF i > Len(PipelineSteps)
  THEN [run EXCEPT !.raised =
          \E k \in DOMAIN run.entries : ~UnpacksAsPair(run.entries[k])]
  ELSE
    LET t == PipelineSteps[i]
        extracted == ExtractFor(t, raw_data, tag_records)
        res == MergeFor(t, extracted.value, run.files[t], cfg, IOOf(t))
    IN IF extracted.raised
       THEN PipelineLoop(i + 1, raw_data, cfg, tag_records,
              [run EXCEPT !.entries[t] = FailurePair])
       ELSE IF res.raised
       THEN PipelineLoop(i + 1, raw_data, cfg, tag_records,
              [run EXCEPT !.batches[t] = extracted.value,
                          !.invoked = @ \cup {t},
                          !.entries[t] = FailurePair])
       ELSE PipelineLoop(i + 1, raw_data, cfg, tag_records,
              [run EXCEPT !.batches[t] = extracted.value,
                          !.invoked = @ \cup {t},
                          !.files[t] = res.file,
                          !.entries[t] = Returned(res)])

\* results["projects"]: raw_data.get raises on None; the projects merge the
\* module defines takes no argument, the call with one raises TypeError.
graphql_to_csv_pipeline(raw_data, fs, cfg, tag_records) ==
  PipelineLoop(1, raw_data, cfg, tag_records,
    [files |-> fs,
     entries |-> [k \in {PipelineSteps[i] : i \in 1..Len(PipelineSteps)}
                         \cup {"projects"} |-> FailurePair],
     batches |-> [t \in Tables |-> <<>>], invoked |-> {}, raised |-> FALSE])

(***************************************************************************)
(* new_code/src/parser/transformations.py, TableauDataTransformer.         *)
(***************************************************************************)
\* x or None
OrNone(x) == IF Truthy(x) THEN x ELSE None

\* transform_users and transform_tags build their lists from a set; the
\* list is kept as that set, its order being the set's iteration order.
transform_users(data) ==
  LET workbooks == WorkbooksOf(data)
      owner(i) == Get(workbooks[i], "owner", EmptyDict)
  IN {[id |-> OrNone(Get(owner(i), "id", None)),
       name |-> OrNone(Get(owner(i), "name", None)),
       username |-> OrNone(Get(owner(i), "username", None)),
       email |-> OrNone(Get(owner(i), "email", None)),
       created_at |-> NowStamp, updated_at |-> NowStamp] :
        i \in 1..Len(workbooks)}

transform_workbooks(data) ==
  LET workbooks == WorkbooksOf(data)
  IN [i \in 1..Len(workbooks) |->
        [id |-> OrNone(Get(workbooks[i], "id", None)),
         name |-> OrNone(Get(workbooks[i], "name", None)),
         project_name |-> OrNone(Get(workbooks[i], "projectName", None)),
         uri |-> OrNone(Get(workbooks[i], "uri", None)),
         owner_id |->
           OrNone(Get(Get(workbooks[i], "owner", EmptyDict), "id", None)),
         created_at |-> NowStamp, updated_at |-> NowStamp]]

transform_views(data) ==
  LET TransformedViewsOf(workbook) ==
        LET views == Get(workbook, "views", <<>>)
        IN [i \in 1..Len(views) |->
              [id |-> OrNone(Get(views[i], "id", None)),
               name |-> OrNone(Get(views[i], "name", None)),
               workbook_id |-> OrNone(Get(workbook, "id", None)),
               path |-> OrNone(Get(views[i], "path", None)),
               type |-> OrNone(Get(views[i], "__typename", None)),
               created_at |-> parse_datetime(Get(views[i], "createdAt", None)),
               updated_at |-> parse_datetime(Get(views[i], "updatedAt", None))]]
  IN
  LET workbooks == WorkbooksOf(data)
  IN Concat([i \in 1..Len(workbooks) |-> TransformedViewsOf(workbooks[i])])

transform_datasources(data) ==
  LET TransformedDatasource(ds, type) ==
        [id |-> Get(ds, "id", None),
         name |-> OrNone(Get(ds, "name", None)),
         uri |-> IF type = Lit.upstream THEN OrNone(Get(ds, "uri", None)) ELSE None,
         has_extracts |->
           IF Truthy(Get(ds, "hasExtracts", None)) THEN ds.hasExtracts
           ELSE StrBool(FALSE),
         extract_last_refresh_time |->
           parse_datetime(Get(ds, "extractLastRefreshTime", None)),
         type |-> type, created_at |-> NowStamp, updated_at |-> NowStamp]
      \* The datasources in the order transform_datasources visits them, each
      \* with its type.
      TypedDatasourcesOf(workbook) ==
        LET upstream == Get(workbook, "upstreamDatasources", <<>>)
            embedded == Get(workbook, "embeddedDatasources", <<>>)
        IN [i \in 1..Len(upstream) |-> <<upstream[i], Lit.upstream>>]
           \o [i \in 1..Len(embedded) |-> <<embedded[i], Lit.embedded>>]
      TypedDatasources ==
        LET workbooks == WorkbooksOf(data)
        IN Concat([i \in 1..Len(workbooks) |-> TypedDatasourcesOf(workbooks[i])])
      \* One relation row per upstream database of every datasource, numbered
      \* conn_<number of relation rows so far>.
      RECURSIVE NumberedRelations(_, _)
      NumberedRelations(ids, datasource_connections) ==
        IF ids = <<>> THEN datasource_connections
        ELSE NumberedRelations(Tail(ids),
               Append(datasource_connections,
                      [datasource_id |-> Head(ids),
                       connection_id |-> ConnId(Len(datasource_connections))]))
  IN
  LET typed == TypedDatasources
      ids == Concat([i \in 1..Len(typed) |->
               [j \in 1..Len(Get(typed[i][1], "upstreamDatabases", <<>>)) |->
                  Get(typed[i][1], "id", None)]])
  IN [datasources |->
        [i \in 1..Len(typed) |-> TransformedDatasource(typed[i][1], typed[i][2])],
      datasource_connections |-> NumberedRelations(ids, <<>>)]

transform_connections(data) ==
  LET TransformerKey(db) ==
        <<OrNone(Get(db, "name", None)), OrNone(Get(db, "connectionType", None)),
          OrNone(Get(db, "__typename", None))>>
      RECURSIVE MappedConnections(_, _, _)
      MappedConnections(dbs, connection_id_map, connections) ==
        IF dbs = <<>> THEN connections
        ELSE
          LET db_key == TransformerKey(Head(dbs))
          IN IF db_key \in connection_id_map
             THEN MappedConnections(Tail(dbs), connection_id_map, connections)
             ELSE MappedConnections(Tail(dbs), connection_id_map \cup {db_key},
                    Append(connections,
                      [id |-> ConnId(Len(connections)), name |-> db_key[1],
                       connection_type |-> db_key[2], connects_to |-> db_key[3],
                       created_at |-> NowStamp, updated_at |-> NowStamp]))
  IN
  MappedConnections(DatabasesInOrder(data), {}, <<>>)

transform_tags(data) ==
  LET TransformedTagsOf(workbook) ==
        LET tags == Get(workbook, "tags", <<>>)
        IN [i \in 1..Len(tags) |->
              [tag |-> [id |-> OrNone(Get(tags[i], "id", None)),
                        name |-> OrNone(Get(tags[i], "name", None)),
                        created_at |-> NowStamp, updated_at |-> NowStamp],
               relation |-> [workbook_id |-> OrNone(Get(workbook, "id", None)),
                             tag_id |-> OrNone(Get(tags[i], "id", None))]]]
  IN
  LET workbooks == WorkbooksOf(data)
      found == Concat([i \in 1..Len(workbooks) |->
                 TransformedTagsOf(workbooks[i])])
  IN [tags |-> {found[i].tag : i \in 1..Len(found)},
      workbook_tag_relations |-> [i \in 1..Len(found) |-> found[i].relation]]

\* TableauDataTransformer(data).transform_all(): the constructor raises on
\* a data_source that is None.
TransformerTransformAll(data) ==
  LET TransformedWorkbookDatasourcesOf(workbook) ==
        LET with_id == SelectSeq(AllDatasourcesOf(workbook),
                         LAMBDA ds : Truthy(Get(ds, "id", None)))
        IN IF ~Truthy(Get(workbook, "id", None)) THEN <<>>
           ELSE [i \in 1..Len(with_id) |->
                   [workbook_id |-> workbook.id, datasource_id |-> with_id[i].id]]
  IN
  IF \/ data = NoneDict
     \/ "data" \notin DOMAIN data
     \/ "workbooks" \notin DOMAIN data.data
  THEN [raised |-> TRUE]
  ELSE
    LET workbooks == WorkbooksOf(data)
    IN [raised |-> FALSE,
        users |-> transform_users(data),
        workbooks |-> transform_workbooks(data),
        views |-> transform_views(data),
        datasources |-> transform_datasources(data).datasources,
        connections |-> transform_connections(data),
        tags |-> transform_tags(data).tags,
        workbook_datasources |->
          Concat([i \in 1..Len(workbooks) |->
                    TransformedWorkbookDatasourcesOf(workbooks[i])]),
        datasource_connections |->
          transform_datasources(data).datasource_connections,
        workbook_tags |-> transform_tags(data).workbook_tag_relations]

(***************************************************************************)
(* Extraction runs.  A run hands one raw document to transform_all, to     *)
(* graphql_to_csv_pipeline or to TableauDataTransformer.transform_all;     *)
(* the first two work on the table files the earlier runs left behind.     *)
(*   hist : the last run (its document, the files before it, its outcome)  *)
(***************************************************************************)
MaxRuns == 2

RunFaultKinds == {"datasources", "output_dir"}

\* One history follows the runs of one entry point.
MayRun(kind) ==
  /\ runs < MaxRuns
  /\ hist # <<>> => hist[1].kind = kind

Run(kind, raw_data, tag_records, before, out) ==
  [kind |-> kind, doc |-> raw_data, tags |-> tag_records, before |-> before,
   faults |-> faults, out |-> out]

TransformAll ==
  \E raw_data \in Documents :
    \E tag_records \in get_tags(raw_data) :
      LET out == transform_all(raw_data, files, config, tag_records)
      IN /\ MayRun("transform_all")
         /\ files' = out.files
         /\ hist' = <<Run("transform_all", raw_data, tag_records, files, out)>>
         /\ runs' = runs + 1
         /\ UNCHANGED <<procs, _active_connections, config, faults>>

RunPipeline ==
  \E raw_data \in Documents :
    \E tag_records \in get_tags(raw_data) :
      LET out == graphql_to_csv_pipeline(raw_data, files, config, tag_records)
      IN /\ MayRun("pipeline")
         /\ files' = out.files
         /\ hist' = <<Run("pipeline", raw_data, tag_records, files, out)>>
         /\ runs' = runs + 1
         /\ UNCHANGED <<procs, _active_connections, config, faults>>

RunTransformer ==
  \E raw_data \in Documents :
    /\ MayRun("transformer")
    /\ hist' = <<Run("transformer", raw_data, <<>>, files,
                     TransformerTransformAll(raw_data))>>
    /\ runs' = runs + 1
    /\ UNCHANGED <<procs, _active_connections, files, config, faults>>

InjectRunFault ==
  \E f \in RunFaultKinds :
    /\ faults = {}
    /\ faults' = {f}
    /\ UNCHANGED <<procs, _active_connections, files, config, hist, runs>>

InitRun ==
  /\ files = NoFiles
  /\ config \in Configs
  /\ faults = {}
  /\ hist = <<>>
  /\ runs = 0
  /\ procs = <<>>
  /\ _active_connections = <<>>

NextRun ==
  \/ TransformAll
  \/ RunPipeline
  \/ RunTransformer
  \/ InjectRunFault
  \/ ClearFault

SpecRun == InitRun /\ [][NextRun]_vars

(***************************************************************************)
(* Two runs of generate_datasources_csv_from_config against one table      *)
(* file.  A run takes three steps, in the order of the code: it reads the  *)
(* existing ids, it builds the new rows and tests csv_filepath.exists(),   *)
(* it opens the file and writes.  Steps of different runs interleave.      *)
(***************************************************************************)
RaceRuns == {"run_a", "run_b"}

\* The run has read the existing ids and has not written yet.
InFlight(r) == procs[r].pc \in {"read", "opening"}

\* Configuration loading and read_existing_datasources(csv_filepath).  hist
\* records that this read happened while another run was in flight.
ReadExisting ==
  \E r \in RaceRuns :
    \E datasources_data \in SeqsUpTo(Records.datasources, MaxBatch) :
      LET cfgv == load_YAML_config(config)
          file_settings == Get(cfgv, "csv_paths", EmptyDict)
      IN /\ procs[r].pc \in {"idle", "done"}
         /\ runs < MaxRuns
         /\ runs' = runs + 1
         /\ IF DictFalsy(cfgv)
               \/ ~HasSettings(file_settings, {"data_folder_path",
                      "temp_subfolder_name", "datasources_csv_filename"})
            THEN /\ procs' = [procs EXCEPT ![r] = [pc |-> "done"]]
                 /\ UNCHANGED hist
            ELSE /\ procs' = [procs EXCEPT ![r] =
                       [pc |-> "read",
                        datasources_data |-> datasources_data,
                        existing_datasources |->
                          read_existing_datasources(files["datasources"])]]
                 /\ hist' = IF \E q \in RaceRuns \ {r} : InFlight(q)
                            THEN <<[kind |-> "interleaved"]>>
                            ELSE hist
         /\ UNCHANGED <<files, config, faults, _active_connections>>

\* The sort, the loop over sorted_datasources, the early return when there
\* is nothing new, and file_exists = csv_filepath.exists().
BuildRows ==
  \E r \in RaceRuns :
    /\ procs[r].pc = "read"
    /\ LET data == procs[r].datasources_data
           acc == DatasourceLoop(Sorted(data, DatasourceSortKeys(data)),
                    procs[r].existing_datasources,
                    [processed |-> <<>>, seen |-> {}, processed_count |-> 0,
                     skipped_count |-> 0])
       IN procs' = [procs EXCEPT ![r] =
                      IF acc.processed = <<>> THEN [pc |-> "done"]
                      ELSE [pc |-> "opening",
                            processed_datasources |-> acc.processed,
                            file_exists |-> files["datasources"].exists]]
    /\ UNCHANGED <<files, config, faults, hist, runs, _active_connections>>

\* open(csv_filepath, mode), writeheader when the file did not exist at the
\* test, writerows.
OpenAndWrite ==
  \E r \in RaceRuns :
    /\ procs[r].pc = "opening"
    /\ files' = [files EXCEPT !["datasources"] =
                   WriteCsv(@, Headers.datasources,
                            procs[r].processed_datasources,
                            ~procs[r].file_exists)]
    /\ procs' = [procs EXCEPT ![r] = [pc |-> "done"]]
    /\ UNCHANGED <<config, faults, hist, runs, _active_connections>>

InitRace ==
  /\ files = NoFiles
  /\ config \in Configs
  /\ faults = {}
  /\ hist = <<>>
  /\ runs = 0
  /\ procs = [r \in RaceRuns |-> [pc |-> "idle"]]
  /\ _active_connections = <<>>

NextRace ==
  \/ ReadExisting
  \/ BuildRows
  \/ OpenAndWrite

SpecRace == InitRace /\ [][NextRace]_vars

(***************************************************************************)
(* Auth/server_connection.py: the configured server profiles and the       *)
(* module-level cache of active connections.  A profile name is a string;  *)
(* the argument None is written "<None>".  A cached server is the state of *)
(* its session, "active" or "expired".                                     *)
(*   hist : the last call (its argument, the cache before it and at its    *)
(*          return, what it raised, the sign-in attempts it made, the      *)
(*          sign-outs that succeeded)                                      *)
(***************************************************************************)
_profiles == {"development", "production"}

_default_profile_name == "development"

retry_attempts == 3

\* Variant: an unknown profile name falls back to the default profile.
get_tableau_server_defaulting(profile_name, connections, failed_sign_ins) ==
  LET target_profile_name ==
        IF profile_name \in _profiles THEN profile_name
        ELSE _default_profile_name
  IN
  IF target_profile_name \in DOMAIN connections
     /\ connections[target_profile_name] = "active"
  THEN [connections |-> connections, raised |-> "", sign_in_attempts |-> 0]
  ELSE IF failed_sign_ins >= retry_attempts
  THEN [connections |-> connections, raised |-> "ConnectionError",
        sign_in_attempts |-> retry_attempts]
  ELSE [connections |-> (target_profile_name :> "active") @@ connections,
        raised |-> "", sign_in_attempts |-> failed_sign_ins + 1]

\* failed_sign_ins: how many calls of server.auth.sign_in raise before one
\* succeeds (retry_attempts or more: none succeeds).
get_tableau_server(profile_name, connections, failed_sign_ins) ==
  LET target_profile_name ==
        IF profile_name \in {"<None>", ""} THEN _default_profile_name
        ELSE profile_name
  IN
  IF target_profile_name \notin _profiles
  THEN [connections |-> connections, raised |-> "ValueError",
        sign_in_attempts |-> 0]
  ELSE IF target_profile_name \in DOMAIN connections
          /\ connections[target_profile_name] = "active"
  THEN [connections |-> connections, raised |-> "", sign_in_attempts |-> 0]
  ELSE IF failed_sign_ins >= retry_attempts
  THEN [connections |-> connections, raised |-> "ConnectionError",
        sign_in_attempts |-> retry_attempts]
  ELSE [connections |-> (target_profile_name :> "active") @@ connections,
        raised |-> "", sign_in_attempts |-> failed_sign_ins + 1]

\* Variant: an exception of sign_out is not caught in the loop over all
\* connections, so the loop and the clear() after it are not completed.
disconnect_tableau_server_uncaught(profile_name, connections, sign_out_raises) ==
  LET signed_in == {p \in DOMAIN connections : connections[p] = "active"}
  IN
  IF profile_name \notin {"<None>", ""}
  THEN [connections |->
          [p \in DOMAIN connections \ {profile_name} |-> connections[p]],
        signed_out |-> (signed_in \cap {profile_name}) \ sign_out_raises]
  ELSE IF signed_in \cap sign_out_raises # {}
  THEN [connections |-> connections, signed_out |-> {}]
  ELSE [connections |-> [p \in {} |-> "active"], signed_out |-> signed_in]

\* sign_out_raises: the profiles whose server.auth.sign_out raises.
disconnect_tableau_server(profile_name, connections, sign_out_raises) ==
  LET signed_in == {p \in DOMAIN connections : connections[p] = "active"}
  IN
  IF profile_name \notin {"<None>", ""}
  THEN [connections |->
          [p \in DOMAIN connections \ {profile_name} |-> connections[p]],
        signed_out |-> (signed_in \cap {profile_name}) \ sign_out_raises]
  ELSE [connections |-> [p \in {} |-> "active"],
        signed_out |-> signed_in \ sign_out_raises]

GetTableauServer ==
  \E profile_name \in _profiles \cup {"<None>", "", "non_existent_profile"} :
    \E failed_sign_ins \in 0..retry_attempts :
      LET out == get_tableau_server(profile_name, _active_connections,
                                    failed_sign_ins)
      IN /\ _active_connections' = out.connections
         /\ hist' = <<[op |-> "get_tableau_server",
                       profile_name |-> profile_name,
                       before |-> _active_connections,
                       after |-> out.connections,
                       raised |-> out.raised,
                       sign_in_attempts |-> out.sign_in_attempts]>>
         /\ UNCHANGED <<files, config, faults, runs, procs>>

DisconnectTableauServer ==
  \E profile_name \in _profiles \cup {"<None>", "", "non_existent_profile"} :
    \E sign_out_raises \in SUBSET _profiles :
      LET out == disconnect_tableau_server(profile_name, _active_connections,
                                           sign_out_raises)
      IN /\ _active_connections' = out.connections
         /\ hist' = <<[op |-> "disconnect_tableau_server",
                       profile_name |-> profile_name,
                       before |-> _active_connections,
                       sign_out_raises |-> sign_out_raises,
                       signed_out |-> out.signed_out]>>
         /\ UNCHANGED <<files, config, faults, runs, procs>>

\* execute_graphql_query: get_tableau_server, the query, and in the finally
\* clause disconnect_tableau_server(profile_name) when a server was obtained.
\* query_raises: the response holds errors or server.metadata.query raises.
ExecuteGraphqlQuery ==
  \E profile_name \in _profiles \cup {"<None>", "non_existent_profile"} :
    \E failed_sign_ins \in {0, retry_attempts}, query_raises \in BOOLEAN,
       sign_out_raises \in {{}, _profiles} :
      LET got == get_tableau_server(profile_name, _active_connections,
                                    failed_sign_ins)
          out == disconnect_tableau_server(profile_name, got.connections,
                                           sign_out_raises)
          after == IF got.raised = "" THEN out.connections
                   ELSE got.connections
      IN /\ _active_connections' = after
         /\ hist' = <<[op |-> "execute_graphql_query",
                       profile_name |-> profile_name,
                       before |-> _active_connections,
                       after |-> after,
                       raised |-> IF got.raised # "" THEN got.raised
                                  ELSE IF query_raises THEN "Exception"
                                  ELSE ""]>>
         /\ UNCHANGED <<files, config, faults, runs, procs>>

\* with TableauServerConnection(profile_name) as server: __enter__ calls
\* get_tableau_server, __exit__ calls disconnect_tableau_server(profile_name)
\* when __enter__ stored a server; the body leaves the cache alone.
TableauServerConnection ==
  \E profile_name \in _profiles \cup {"<None>", "non_existent_profile"} :
    \E failed_sign_ins \in {0, retry_attempts},
       sign_out_raises \in {{}, _profiles} :
      LET got == get_tableau_server(profile_name, _active_connections,
                                    failed_sign_ins)
          out == disconnect_tableau_server(profile_name, got.connections,
                                           sign_out_raises)
          after == IF got.raised = "" THEN out.connections
                   ELSE got.connections
      IN /\ _active_connections' = after
         /\ hist' = <<[op |-> "TableauServerConnection",
                       profile_name |-> profile_name,
                       before |-> _active_connections,
                       after |-> after,
                       raised |-> got.raised]>>
         /\ UNCHANGED <<files, config, faults, runs, procs>>

\* The server ends a session (timeout, token revoked): server.users.get()
\* and is_signed_in() of the cached object no longer succeed.
SessionExpires ==
  \E p \in DOMAIN _active_connections :
    /\ _active_connections[p] = "active"
    /\ _active_connections' = [_active_connections EXCEPT ![p] = "expired"]
    /\ UNCHANGED <<files, config, faults, hist, runs, procs>>

InitConn ==
  /\ files = NoFiles
  /\ config = ConfigFull
  /\ faults = {}
  /\ hist = <<>>
  /\ runs = 0
  /\ procs = <<>>
  /\ _active_connections = [p \in {} |-> "active"]

NextConn ==
  \/ GetTableauServer
  \/ DisconnectTableauServer
  \/ ExecuteGraphqlQuery
  \/ TableauServerConnection
  \/ SessionExpires

SpecConn == InitConn /\ [][NextConn]_vars

(***************************************************************************)
(* The sign-in loop of get_tableau_server, one step per call of            *)
(* server.auth.sign_in.  procs is the one caller: where it stands in       *)
(* get_tableau_server, the profile it asked for, and the number of sign-in *)
(* calls it has made in this call.                                         *)
(***************************************************************************)
MaxRetries == 2

\* config_data.get('connection', {}).get('retry_attempts', 3), read again by
\* _connection_settings.get('retry_attempts', 3).
RetryAttemptsSetting ==
  Get(Get(config, "connection", EmptyDict), "retry_attempts", retry_attempts)

\* The part of get_tableau_server before the loop, for a configured profile:
\* a cached session that answers server.users.get() is returned as it is.
CallGetTableauServer ==
  \E profile_name \in _profiles :
    LET reuse == /\ profile_name \in DOMAIN _active_connections
                 /\ _active_connections[profile_name] = "active"
    IN /\ procs.pc \in {"idle", "returned", "raised"}
       /\ procs' = [pc |-> IF reuse THEN "returned" ELSE "signing_in",
                    profile_name |-> profile_name, attempt |-> 0,
                    reused |-> reuse]
       /\ UNCHANGED <<files, config, faults, hist, runs, _active_connections>>

\* Variant: the loop runs over range(retry_attempts + 1).
SignInOnceMore ==
  \E succeeds \in BOOLEAN :
    /\ procs.pc = "signing_in"
    /\ procs.attempt < RetryAttemptsSetting + 1
    /\ IF succeeds
       THEN /\ _active_connections' =
                 (procs.profile_name :> "active") @@ _active_connections
            /\ procs' = [procs EXCEPT !.pc = "returned", !.attempt = @ + 1]
       ELSE /\ procs' = [procs EXCEPT
                 !.pc = IF procs.attempt < RetryAttemptsSetting
                        THEN "signing_in" ELSE "raised",
                 !.attempt = @ + 1]
            /\ UNCHANGED _active_connections
    /\ UNCHANGED <<files, config, faults, hist, runs>>

\* One iteration of for attempt in range(retry_attempts): sign_in succeeds,
\* the server is cached and returned; or it raises, and the loop sleeps and
\* goes on, or, in the last iteration, raises ConnectionError.
SignIn ==
  \E succeeds \in BOOLEAN :
    /\ procs.pc = "signing_in"
    /\ procs.attempt < RetryAttemptsSetting
    /\ IF succeeds
       THEN /\ _active_connections' =
                 (procs.profile_name :> "active") @@ _active_connections
            /\ procs' = [procs EXCEPT !.pc = "returned", !.attempt = @ + 1]
       ELSE /\ procs' = [procs EXCEPT
                 !.pc = IF procs.attempt < RetryAttemptsSetting - 1
                        THEN "signing_in" ELSE "raised",
                 !.attempt = @ + 1]
            /\ UNCHANGED _active_connections
    /\ UNCHANGED <<files, config, faults, hist, runs>>

\* The range is exhausted without a return or a raise (retry_attempts is 0):
\* the raise ConnectionError that follows the loop.
RangeExhausted ==
  /\ procs.pc = "signing_in"
  /\ procs.attempt >= RetryAttemptsSetting
  /\ procs' = [procs EXCEPT !.pc = "raised"]
  /\ UNCHANGED <<files, config, faults, hist, runs, _active_connections>>

InitSignIn ==
  /\ files = NoFiles
  \* server_profiles.yaml without a connection section, or with one that
  \* sets retry_attempts.
  /\ config \in {[p \in _profiles |-> TRUE]}
                  \cup {[connection |-> [retry_attempts |-> n]] :
                          n \in 0..MaxRetries}
  /\ faults = {}
  /\ hist = <<>>
  /\ runs = 0
  /\ procs = [pc |-> "idle", profile_name |-> _default_profile_name,
              attempt |-> 0, reused |-> FALSE]
  /\ _active_connections = [p \in {} |-> "active"]

NextSignIn ==
  \/ CallGetTableauServer
  \/ SignIn
  \/ RangeExhausted
  \/ SessionExpires

\* The caller is one thread that runs the loop to its end: an iteration or
\* the statement after the loop that can be executed is executed.
SpecSignIn ==
  InitSignIn /\ [][NextSignIn]_vars
    /\ WF_vars(SignIn) /\ WF_vars(RangeExhausted)

(***************************************************************************)
(* Properties of the merge functions (SpecMerge).                          *)
(***************************************************************************)
Called(t) == hist # <<>> /\ hist[1].table = t

\* The data rows of the called table before and after the last call, and
\* the rows that call appended.
RowsBefore == DataRows(hist[1].before)

RowsAfter == DataRows(files[hist[1].table])

AppendedRows == SubSeq(RowsAfter, Len(RowsBefore) + 1, Len(RowsAfter))

\* C1: for datasources, workbook_datasources and datasource_connections, a
\* merge that repeats the batch of a first merge into an absent table file
\* leaves the table file as the first merge left it (same number of data
\* rows) and reports zero new rows.
C1_MergeIdempotent ==
  LET \* The number of new rows the last call reports in its status dict.
      ReportedNew ==
        CASE hist[1].table = "datasources" -> hist[1].res.value.processed_count
          [] hist[1].table = "workbook_datasources" ->
               hist[1].res.value.processed_relationships
          [] hist[1].table = "datasource_connections" -> hist[1].res.value.wrote
      KeyReadingTables ==
        {"datasources", "workbook_datasources", "datasource_connections"}
  IN
  (hist # <<>> /\ hist[1].table \in KeyReadingTables /\ hist[1].rerun)
    => /\ Len(RowsAfter) = Len(RowsBefore)
       /\ files[hist[1].table] = hist[1].before
       /\ ReportedNew = 0

\* A second datasources merge of a two-datasource batch: both skipped.
C1_Witness ==
  /\ Called("datasources")
  /\ hist[1].rerun
  /\ Len(RowsBefore) = 2
  /\ hist[1].res.value.skipped_count = 2
  /\ StatusOf(hist[1].res) = "Success"

\* The composite key (name, connection_type, connects_to) of a data row of
\* the connections table file.
ConnectionRowKey(row) == <<Strip(row[2]), Strip(row[3]), Strip(row[4])>>

\* C2: a connections merge appends no row whose composite key is already in
\* the table file it started from; every such incoming connection is counted
\* as skipped, and a merge of the same batch a second time appends no row.
C2_ConnectionsPartitionedByKey ==
  LET PersistedConnectionKeys ==
        {ConnectionRowKey(RowsBefore[i]) : i \in 1..Len(RowsBefore)}
  IN
  Called("connections") =>
    /\ \A i \in 1..Len(AppendedRows) :
         ConnectionRowKey(AppendedRows[i]) \notin PersistedConnectionKeys
    /\ hist[1].rerun => Len(RowsAfter) = Len(RowsBefore)

\* C3: a users, workbooks or views merge that repeats the records of the
\* first merge, against the file that merge produced, adds no row whose id
\* is already persisted.
C3_EntityRerunAddsNoPersistedId ==
  LET PersistedIds == {RowsBefore[i][1] : i \in 1..Len(RowsBefore)}
  IN
  (hist # <<>> /\ hist[1].table \in {"users", "workbooks", "views"}
     /\ hist[1].rerun)
    => \A i \in 1..Len(AppendedRows) : AppendedRows[i][1] \notin PersistedIds

\* C9: whenever writing the table file raises an I/O error in a datasources,
\* users or workbooks merge, the status the merge returns is Failed.
C9_WriteErrorReportsFailed ==
  LET \* The last call opened its table file for writing and the open (or the
      \* write) raised an I/O error.
      WriteRaised ==
        /\ hist # <<>>
        /\ config = ConfigFull
        /\ CASE hist[1].table = "datasources" ->
                  /\ hist[1].io = "open_fails"
                  /\ hist[1].res.value.processed_count > 0
             [] hist[1].table = "users" ->
                  /\ hist[1].io = "open_fails"
                  /\ hist[1].batch # <<>>
                  /\ ~LowerRaises(hist[1].batch)
             [] hist[1].table = "workbooks" ->
                  /\ hist[1].io[1] # "mkdir_fails"
                  /\ hist[1].io[2] # {}
                  /\ ~LowerRaises(hist[1].batch)
             [] OTHER -> FALSE
  IN
  WriteRaised => StatusOf(hist[1].res) = "Failed"

(***************************************************************************)
(* Properties of extraction runs (SpecRun).                                *)
(***************************************************************************)
Ran(kind) == hist # <<>> /\ hist[1].kind = kind

\* (name, connectionType, __typename) as the document spells them.
RawKey(db) ==
  <<Get(db, "name", None), Get(db, "connectionType", None),
    Get(db, "__typename", None)>>

\* C4: when a database key (name, connectionType, __typename) appears under
\* datasources of two different workbooks of the document of a run,
\* get_connections emits exactly one connection record for the key, and
\* every row get_datasource_connections emits for those databases carries
\* the id (conn_N) of that record as its connection_id.
C4_SharedConnectionReferencedById ==
  LET \* The complete keys that appear under datasources of two different
      \* workbooks of the document.
      SharedKeys(raw_data) ==
        LET RawKeysOfWorkbook(workbook) ==
              LET dbs == DatabasesOf(AllDatasourcesOf(workbook))
              IN {RawKey(dbs[i]) : i \in 1..Len(dbs)}
        IN
        LET workbooks == WorkbooksOf(raw_data)
        IN {k \in UNION {RawKeysOfWorkbook(workbooks[i]) : i \in 1..Len(workbooks)} :
              /\ \A n \in 1..3 : Truthy(k[n])
              /\ \E i, j \in 1..Len(workbooks) :
                   /\ i # j
                   /\ k \in RawKeysOfWorkbook(workbooks[i])
                   /\ k \in RawKeysOfWorkbook(workbooks[j])}
      \* The rows get_datasource_connections emits for the databases of key k.
      RowsForKey(raw_data, k) ==
        LET workbooks == WorkbooksOf(raw_data)
            datasources == Concat([i \in 1..Len(workbooks) |->
                                     AllDatasourcesOf(workbooks[i])])
            OfKey(ds) == [ds EXCEPT !.upstreamDatabases =
                            SelectSeq(@, LAMBDA db : RawKey(db) = k)]
        IN Concat([i \in 1..Len(datasources) |->
                     IF "upstreamDatabases" \in DOMAIN datasources[i]
                     THEN DatasourceConnectionsOf(OfKey(datasources[i]))
                     ELSE <<>>])
  IN
  (Ran("transform_all") /\ hist[1].doc # NoneDict)
    => \A k \in SharedKeys(hist[1].doc) :
         LET connections == get_connections(hist[1].doc).value
             rows == RowsForKey(hist[1].doc, k)
             matching ==
               {i \in 1..Len(connections) :
                  <<connections[i].name, connections[i].connection_type,
                    connections[i].connects_to>>
                    = <<Strip(k[1]), Strip(k[2]), Strip(k[3])>>}
         IN /\ Cardinality(matching) = 1
            /\ \A i \in matching : \A r \in 1..Len(rows) :
                 rows[r].connection_id = connections[i].id

\* C5: TableauDataTransformer.transform_all over the document with the one
\* workbook W1, whose two upstream datasources both list the database
\* (SalesDB, PostgreSQL, Database), returns one row in connections, with id
\* conn_0, and two rows in datasource_connections, both with connection_id
\* conn_0.
C5_TransformerSharesConn0 ==
  (Ran("transformer") /\ hist[1].doc = RawData(<<W1>>))
    => /\ ~hist[1].out.raised
       /\ Len(hist[1].out.connections) = 1
       /\ hist[1].out.connections[1].id = ConnId(0)
       /\ Len(hist[1].out.datasource_connections) = 2
       /\ \A i \in 1..Len(hist[1].out.datasource_connections) :
            hist[1].out.datasource_connections[i].connection_id = ConnId(0)

\* C6: in a run of transform_all that reaches its end, with a complete
\* configuration and a usable file system, a table whose extractor yielded
\* no records is reported Success.
C6_EmptyBatchIsSuccess ==
  (Ran("transform_all") /\ ~hist[1].out.raised
     /\ config = ConfigFull /\ hist[1].faults = {})
    => \A t \in Tables :
         hist[1].out.batches[t] = <<>> => hist[1].out.results[t] = "Success"

\* C7: in every result transform_all returns, overall_status is Success
\* exactly when each of the ten per-table statuses is Success, and it is
\* Failed otherwise.
C7_OverallIffAllSuccess ==
  Ran("transform_all")
    => /\ hist[1].out.results["overall"] \in {"Success", "Failed"}
       /\ hist[1].out.results["overall"] = "Success"
            <=> \A t \in Tables : hist[1].out.results[t] = "Success"

C7_Witness ==
  /\ Ran("transform_all")
  /\ hist[1].out.results["overall"] = "Success"
  /\ hist[1].out.invoked = Tables

\* C8: in a run of transform_all or of graphql_to_csv_pipeline over a
\* well-formed document, with a complete configuration and the datasources
\* table file unwritable, the run returns its results, and every other table
\* with a non-empty batch has its merge invoked, its table file written and
\* its status reported as Success.
C8_FaultIsolation ==
  LET \* A document whose workbooks carry every key and id the extractors read.
      WellFormed(raw_data) ==
        raw_data \in {RawData(<<W1>>), RawData(<<W1, W2>>), RawData(<<W2>>),
                      RawData(<<WBare>>)}
      \* The tables an entry point merges.
      TablesOf(kind) ==
        IF kind = "pipeline"
        THEN {PipelineSteps[i] : i \in 1..Len(PipelineSteps)}
        ELSE Tables
      \* The status a run reports for a table.
      ReportedStatus(run, t) ==
        IF run.kind = "pipeline" THEN run.out.entries[t].status
        ELSE run.out.results[t]
      \* The rows of new, those of old excepted.
      NewRows(old, new) ==
        SelectSeq(DataRows(new),
                  LAMBDA row : \A i \in 1..Len(DataRows(old)) : DataRows(old)[i] # row)
  IN
  (/\ hist # <<>>
   /\ hist[1].kind \in {"transform_all", "pipeline"}
   /\ hist[1].faults = {"datasources"}
   /\ config = ConfigFull
   /\ WellFormed(hist[1].doc))
    => /\ ~hist[1].out.raised
       /\ \A t \in TablesOf(hist[1].kind) \ {"datasources"} :
            hist[1].out.batches[t] # <<>>
              => /\ t \in hist[1].out.invoked
                 /\ hist[1].out.files[t].exists
                 /\ ~hist[1].before[t].exists
                      => NewRows(hist[1].before[t], hist[1].out.files[t]) # <<>>
                 /\ ReportedStatus(hist[1], t) = "Success"

\* datasource_id of every data row of the datasources table file.
PersistedDatasourceIds ==
  LET rows == DictReader(files["datasources"])
  IN [i \in 1..Len(rows) |-> rows[i].datasource_id]

\* C10: after any sequence of extraction runs, no two data rows of the
\* datasources table file have the same datasource_id.
C10_DatasourceIdsUnique ==
  \A i, j \in 1..Len(PersistedDatasourceIds) :
    i # j => PersistedDatasourceIds[i] # PersistedDatasourceIds[j]

C10_Witness ==
  /\ Ran("transform_all")
  /\ runs = 2
  /\ hist[1].doc = RawData(<<W1, W2>>)
  /\ hist[1].before["datasources"].exists
  /\ Len(hist[1].out.batches["datasources"]) = 4
  /\ Len(PersistedDatasourceIds) = 2

(***************************************************************************)
(* Further properties of the merge functions (SpecMerge).                  *)
(***************************************************************************)
\* C11: a tags merge that returns Success appends an incoming tag record
\* exactly when no row of the table file it started from and no earlier
\* record of the batch has the same tag id: every id of the batch that is
\* not persisted is appended, once, and no persisted id is appended again.
C11_TagsKeyedById ==
  (Called("tags") /\ ~hist[1].res.raised /\ StatusOf(hist[1].res) = "Success")
    => LET persisted == {RowsBefore[i][1] : i \in 1..Len(RowsBefore)}
           incoming == {hist[1].batch[i].id : i \in 1..Len(hist[1].batch)}
           appended == [i \in 1..Len(AppendedRows) |-> AppendedRows[i][1]]
       IN /\ {appended[i] : i \in 1..Len(appended)} = incoming \ persisted
          /\ \A i, j \in 1..Len(appended) : i # j => appended[i] # appended[j]

\* C12: a step of any table merge function only appends: the data rows a
\* table file held before the step are, unchanged and in the same order, the
\* first data rows it holds after the step, for every table file.
C12_MergeAppendOnly ==
  [][\A t \in DOMAIN files :
       /\ Len(DataRows(files[t])) <= Len(DataRows(files'[t]))
       /\ SubSeq(DataRows(files'[t]), 1, Len(DataRows(files[t])))
            = DataRows(files[t])]_vars

\* A merge into an existing table file with data rows appended a row.
C12_Witness ==
  /\ hist # <<>>
  /\ hist[1].before.exists
  /\ Len(RowsBefore) >= 1
  /\ Len(RowsAfter) > Len(RowsBefore)
  /\ SubSeq(RowsAfter, 1, Len(RowsBefore)) = RowsBefore

\* C13: every existing table file holds exactly one header line, the column
\* names of its table, and that line is the first: no merge into an existing
\* file writes the header again.
C13_SingleHeaderFirst ==
  LET HeaderOf(t) ==
        CASE t \in DOMAIN Headers -> Headers[t]
          [] t = "workbook_datasources" -> <<"workbook_id", "datasource_id">>
          [] t = "datasource_connections" -> <<"datasource_id", "connection_id">>
          [] OTHER -> <<>>
  IN \A t \in DOMAIN files :
       files[t].exists
         => /\ Len(files[t].lines) >= 1
            /\ files[t].lines[1] = HeaderOf(t)
            /\ \A i \in 2..Len(files[t].lines) : files[t].lines[i] # HeaderOf(t)

\* A table file created by one merge and appended to by a later one: the
\* later call found the file, wrote rows, and the file starts with the one
\* header line the creating call wrote.
C13_Witness ==
  /\ hist # <<>>
  /\ hist[1].before.exists
  /\ Len(files[hist[1].table].lines) > Len(hist[1].before.lines)
  /\ Len(hist[1].before.lines) >= 2
  /\ files[hist[1].table].lines[1] = hist[1].before.lines[1]

(***************************************************************************)
(* Concurrent datasources merges (SpecRace).                               *)
(***************************************************************************)
\* C14: as long as no run of the datasources merge has read the existing
\* ids while another run was between its read and its write, no two data
\* rows of the datasources table file have the same datasource_id; two
\* rows with one id are reached only by interleaved runs (C14_Witness).
C14_SequentialRunsNoDuplicate ==
  hist = <<>>
    => \A i, j \in 1..Len(PersistedDatasourceIds) :
         i # j => Strip(PersistedDatasourceIds[i]) # Strip(PersistedDatasourceIds[j])

\* Both runs read the ids before either wrote, both have written, and the
\* table file holds two rows with the same datasource_id.
C14_Witness ==
  /\ hist # <<>>
  /\ \A r \in RaceRuns : procs[r].pc = "done"
  /\ \E i, j \in 1..Len(PersistedDatasourceIds) :
       i # j /\ PersistedDatasourceIds[i] = PersistedDatasourceIds[j]

(***************************************************************************)
(* Further properties of the extractors (SpecRun).                         *)
(***************************************************************************)
\* C15: for the document of any run, get_workbook_tags does not raise and,
\* for every workbook that has an id, its rows for that workbook are one per
\* tag entry of the workbook, in order, each carrying the entry's id (None
\* when the entry has none), whether or not get_tags keeps the tag.
C15_OrphanTagRelationsKept ==
  (hist # <<>> /\ hist[1].doc # NoneDict)
    => LET out == get_workbook_tags(hist[1].doc)
           workbooks == WorkbooksOf(hist[1].doc)
           RowsOf(workbook_id) ==
             SelectSeq(out.value, LAMBDA row : row.workbook_id = workbook_id)
           EntriesOf(workbook_id) ==
             Concat([i \in 1..Len(workbooks) |->
                       IF Get(workbooks[i], "id", None) = workbook_id
                       THEN Get(workbooks[i], "tags", <<>>) ELSE <<>>])
       IN /\ ~out.raised
          /\ \A i \in 1..Len(workbooks) :
               Truthy(Get(workbooks[i], "id", None))
                 => LET rows == RowsOf(workbooks[i].id)
                        entries == EntriesOf(workbooks[i].id)
                    IN /\ Len(rows) = Len(entries)
                       /\ \A k \in 1..Len(entries) :
                            rows[k].tag_id = Get(entries[k], "id", None)

\* A run over a document whose workbook has a tag entry without a name and
\* one without an id: get_tags keeps neither, get_workbook_tags emits a
\* relation row for each.
C15_Witness ==
  /\ hist # <<>>
  /\ hist[1].doc = RawData(<<WOdd>>)
  /\ \A tag_records \in get_tags(hist[1].doc) : tag_records.value = <<>>
  /\ Len(get_workbook_tags(hist[1].doc).value) = 2
  /\ \E k \in 1..2 : get_workbook_tags(hist[1].doc).value[k].tag_id = Lit.b
  /\ \E k \in 1..2 : get_workbook_tags(hist[1].doc).value[k].tag_id = None

\* C16: TableauDataTransformer.transform_users emits no user record whose
\* id is missing or empty: every user record of a transformer run that did
\* not raise has a non-empty id.
C16_UsersHaveIds ==
  (Ran("transformer") /\ ~hist[1].out.raised)
    => \A user \in hist[1].out.users : Truthy(user.id)

\* C17: a transform_all run over a document that lacks the top-level shape
\* (no 'data' object, or no list under 'workbooks') ends with overall status
\* Failed, calls no merge, and leaves every table file as it was before the
\* run.
C17_MalformedInputIsFatal ==
  LET Malformed(doc) ==
        \/ "data" \notin DOMAIN doc
        \/ "workbooks" \notin DOMAIN doc.data
  IN (Ran("transform_all") /\ Malformed(hist[1].doc))
       => /\ hist[1].out.results["overall"] = "Failed"
          /\ hist[1].out.invoked = {}
          /\ files = hist[1].before

\* A second run, over the document whose 'workbooks' is null, after a first
\* run wrote table files: get_views raises, the run ends in the except
\* clause, Failed, and the files are those of the first run.
C17_Witness ==
  /\ Ran("transform_all")
  /\ runs = 2
  /\ hist[1].doc = [data |-> [workbooks__null |-> TRUE]]
  /\ hist[1].before["workbooks"].exists
  /\ hist[1].out.raised
  /\ hist[1].out.results["overall"] = "Failed"
  /\ files = hist[1].before

(***************************************************************************)
(* Properties of the connection cache (SpecConn).                          *)
(***************************************************************************)
\* C18: after disconnect_tableau_server called with no profile name, the
\* cache of active connections is empty, whichever profiles were connected
\* and whichever sign-outs raised.
C18_DisconnectAllEmptiesCache ==
  (hist # <<>> /\ hist[1].op = "disconnect_tableau_server"
     /\ hist[1].profile_name = "<None>")
    => DOMAIN _active_connections = {}

\* Both profiles were connected with active sessions, the sign-out of one
\* raised, the other was signed out, and the cache is empty.
C18_Witness ==
  /\ hist # <<>>
  /\ hist[1].op = "disconnect_tableau_server"
  /\ hist[1].profile_name = "<None>"
  /\ DOMAIN hist[1].before = _profiles
  /\ \A p \in _profiles : hist[1].before[p] = "active"
  /\ hist[1].sign_out_raises = {"production"}
  /\ hist[1].signed_out = {"development"}
  /\ DOMAIN _active_connections = {}

C20_ConnectionIdsFirstSeen ==
  LET out == get_connections(hist[1].doc)
      dbs == DatabasesInOrder(hist[1].doc)
      Field(db, k) ==
        IF Get(db, k, EmptyStr) = None THEN EmptyStr
        ELSE Strip(Get(db, k, EmptyStr))
      Key(db) ==
        <<Field(db, "name"), Field(db, "connectionType"),
          Field(db, "__typename")>>
      Complete(i) == \A k \in 1..3 : Key(dbs[i])[k] # EmptyStr
      FirstSeen(i) ==
        Complete(i) /\ \A j \in 1..(i - 1) : Key(dbs[j]) # Key(dbs[i])
      \* The position, counted from 0, of dbs[i] among the first sightings.
      Rank(i) == Cardinality({j \in 1..(i - 1) : FirstSeen(j)})
      n == Cardinality({i \in 1..Len(dbs) : FirstSeen(i)})
      Emitted ==
        {<<out.value[m].id, out.value[m].name, out.value[m].connection_type,
           out.value[m].connects_to>> : m \in 1..Len(out.value)}
  IN (hist # <<>> /\ "doc" \in DOMAIN hist[1] /\ ~out.raised)
       => /\ Len(out.value) = n
          /\ {out.value[m].id : m \in 1..Len(out.value)}
               = {ConnId(k) : k \in 0..(n - 1)}
          /\ Emitted = {<<ConnId(Rank(i)), Key(dbs[i])[1], Key(dbs[i])[2],
                          Key(dbs[i])[3]>> :
                          i \in {j \in 1..Len(dbs) : FirstSeen(j)}}

\* A run over the document with two databases: analytics is met first and
\* is conn_0, SalesDB is conn_1 and is met twice; the records come back
\* sorted by name, SalesDB before analytics.
C20_Witness ==
  /\ hist # <<>>
  /\ hist[1].doc = RawData(<<WTwoDatabases>>)
  /\ LET out == get_connections(hist[1].doc)
     IN /\ Len(out.value) = 2
        /\ out.value[1].id = ConnId(1)
        /\ out.value[1].name = Lit.SalesDB
        /\ out.value[2].id = ConnId(0)
        /\ out.value[2].name = Lit.analytics

(***************************************************************************)
(* Order and counters of the merge functions (SpecMerge).                  *)
(***************************************************************************)
\* The rows the last call appended, read back as dicts of the datasources
\* table.
AppendedDatasources ==
  DictReader([exists |-> TRUE,
              lines |-> <<Headers.datasources>> \o AppendedRows])

\* C21: when the incoming datasources batch holds two records with the same
\* id and different attributes, the merge appends one row for that id and it
\* carries the name and type of the record that comes first in the batch.
C21_FirstSeenWins ==
  (Called("datasources") /\ StatusOf(hist[1].res) = "Success")
    => \A i, j \in 1..Len(hist[1].batch) :
         LET batch == hist[1].batch
             id == Strip(Str(batch[i].id))
             rows == SelectSeq(AppendedDatasources,
                               LAMBDA r : r.datasource_id = id)
         IN (i < j /\ batch[i].id = batch[j].id /\ batch[i] # batch[j]
               /\ Truthy(id)
               /\ (\A h \in 1..(i - 1) : batch[h].id # batch[i].id)
               /\ (\A n \in 1..Len(RowsBefore) : RowsBefore[n][1] # id))
            => /\ Len(rows) = 1
               /\ rows[1].datasource_name = Strip(Str(batch[i].name))
               /\ rows[1].datasource_type = Strip(Str(batch[i].type))

\* The batch holds id A as (y, embedded) and then as (x, upstream): the one
\* row appended is (A, y, embedded).
C21_Witness ==
  /\ Called("datasources")
  /\ StatusOf(hist[1].res) = "Success"
  /\ Len(hist[1].batch) = 2
  /\ hist[1].batch[1].id = hist[1].batch[2].id
  /\ hist[1].batch[1].name = Lit.y
  /\ hist[1].batch[2].name = Lit.x
  /\ Len(AppendedRows) = 1
  /\ AppendedDatasources[1].datasource_name = Lit.y

\* C22: the rows a connections, tags or datasources merge hands to the table
\* file are ordered by name compared case-insensitively, rows with equal
\* names by id.
C22_RowsOrderedByNameThenId ==
  (hist # <<>> /\ hist[1].table \in {"connections", "tags", "datasources"}
     /\ ~hist[1].res.raised /\ StatusOf(hist[1].res) = "Success")
    => \A i, j \in 1..Len(AppendedRows) :
         LET NameOf(row) == Lower(row[2])
             IdOf(row) == row[1]
         IN i < j
            => \/ StrLess(NameOf(AppendedRows[i]), NameOf(AppendedRows[j]))
               \/ /\ NameOf(AppendedRows[i]) = NameOf(AppendedRows[j])
                  /\ ~StrLess(IdOf(AppendedRows[j]), IdOf(AppendedRows[i]))

(***************************************************************************)
(* Order of the tag pipeline (SpecRun).                                    *)
(***************************************************************************)
\* C23: two executions of the tag pipeline (get_tags, then the tags merge)
\* on the same document and the same tags table file write the same rows in
\* the same order: whatever order the set of tags is iterated in, the merge
\* leaves the file as the run left it.
C23_TagPipelineDeterministic ==
  (Ran("transform_all") /\ hist[1].faults = {}
     /\ "tags" \in hist[1].out.invoked)
    => \A tag_records \in get_tags(hist[1].doc) :
         generate_tags_csv_from_config(tag_records.value,
           hist[1].before["tags"], config, "ok").file
         = hist[1].out.files["tags"]

(***************************************************************************)
(* Order of the steps of a run (SpecRun).                                  *)
(***************************************************************************)
\* C24: in every transform_all run no entity table step (users, workbooks,
\* views, tags, connections, datasources) is begun after a relation table
\* step, and when a relation table step is begun all six entity table steps
\* have been begun, and so finished, before it.
C24_EntitiesBeforeRelations ==
  LET EntityTables ==
        {"users", "workbooks", "views", "tags", "connections", "datasources"}
      started == hist[1].out.started
  IN Ran("transform_all")
       => \A j \in 1..Len(started) :
            started[j] \notin EntityTables
              => /\ \A i \in (j + 1)..Len(started) :
                      started[i] \notin EntityTables
                 /\ EntityTables \subseteq {started[i] : i \in 1..(j - 1)}

\* A run over two workbooks that begins all ten steps and merges the
\* datasources before the first relation table.
C24_Witness ==
  /\ Ran("transform_all")
  /\ hist[1].doc = RawData(<<W1, W2>>)
  /\ Len(hist[1].out.started) = 10
  /\ hist[1].out.started[6] = "datasources"
  /\ hist[1].out.started[7] = "datasource_connections"
  /\ {"datasources", "datasource_connections"} \subseteq hist[1].out.invoked

(***************************************************************************)
(* Counters of the datasources merge (SpecMerge).                          *)
(***************************************************************************)
\* C25: a datasources merge of a batch that holds records with an empty or
\* missing id writes none of them, still brings every other id of the batch
\* into the table, and its skipped_count counts each of them.
C25_RecordsWithoutIdAreCountedSkipped ==
  (Called("datasources") /\ StatusOf(hist[1].res) = "Success")
    => LET batch == hist[1].batch
           KeyOf(ds) == Strip(Str(Get(ds, "id", EmptyStr)))
           WithoutId == {i \in 1..Len(batch) : ~Truthy(KeyOf(batch[i]))}
           persisted == {RowsAfter[n][1] : n \in 1..Len(RowsAfter)}
       IN /\ \A n \in 1..Len(AppendedRows) : Truthy(AppendedRows[n][1])
          /\ \A i \in (1..Len(batch)) \ WithoutId :
               KeyOf(batch[i]) \in persisted
          /\ hist[1].res.value.skipped_count >= Cardinality(WithoutId)

\* C26: for every call of the datasources merge, also one whose write fails
\* and whose status is Failed, the processed_count it returns is the number
\* of rows the call appended to the table file.
C26_ProcessedCountIsRowsAppended ==
  Called("datasources")
    => hist[1].res.value.processed_count = Len(AppendedRows)

(***************************************************************************)
(* Connection ids over several runs (SpecRun).                             *)
(***************************************************************************)
\* C27: after any sequence of extraction runs, no two rows of the
\* connections table file that differ in their composite key (name, type,
\* connects_to) carry the same connection_id.
C27_ConnectionIdNamesOneKey ==
  LET rows == DictReader(files["connections"])
      KeyOf(row) ==
        <<Strip(row.connection_name), Strip(row.connection_type),
          Strip(row.connection_to)>>
  IN \A i, j \in 1..Len(rows) :
       KeyOf(rows[i]) # KeyOf(rows[j])
         => rows[i].connection_id # rows[j].connection_id

(***************************************************************************)
(* Unusable configuration (SpecMerge).                                     *)
(***************************************************************************)
\* C28: a views, tags or datasources merge called while the configuration
\* cannot be loaded, or lacks a file setting the merge requires, returns
\* status Failed and leaves the table file as it was.
C28_UnusableConfigIsFailed ==
  LET Section(t) == IF t = "views" THEN "file_settings" ELSE "csv_paths"
      Required(t) ==
        {"data_folder_path", "temp_subfolder_name",
         CASE t = "views" -> "views_csv_filename"
           [] t = "tags" -> "tags_csv_filename"
           [] t = "datasources" -> "datasources_csv_filename"}
      Unusable(t) ==
        \/ DictFalsy(load_YAML_config(config))
        \/ ~HasSettings(Get(load_YAML_config(config), Section(t), EmptyDict),
                        Required(t))
  IN (hist # <<>> /\ hist[1].table \in {"views", "tags", "datasources"}
        /\ Unusable(hist[1].table))
       => /\ ~hist[1].res.raised
          /\ StatusOf(hist[1].res) = "Failed"
          /\ files[hist[1].table] = hist[1].before

(***************************************************************************)
(* Scope of a disconnect (SpecConn).                                       *)
(***************************************************************************)
\* C29: leaving a TableauServerConnection context, or finishing
\* execute_graphql_query, removes from the cache at most the connection of
\* the profile that was opened (the default profile when the name given is
\* None): every other cached connection is still cached, unchanged.
C29_DisconnectsOnlyOpenedProfile ==
  (hist # <<>>
     /\ hist[1].op \in {"execute_graphql_query", "TableauServerConnection"})
    => LET opened == IF hist[1].profile_name = "<None>"
                     THEN _default_profile_name
                     ELSE hist[1].profile_name
       IN \A p \in DOMAIN hist[1].before \ {opened} :
            /\ p \in DOMAIN hist[1].after
            /\ hist[1].after[p] = hist[1].before[p]

(***************************************************************************)
(* The sign-in loop (SpecSignIn).                                          *)
(***************************************************************************)
\* C30: for a configured profile without a usable cached session,
\* get_tableau_server makes at most retry_attempts sign-in attempts; it
\* returns with the server cached at the first attempt that succeeds, and
\* raises ConnectionError only when retry_attempts attempts have been made
\* and have failed; and every call that enters the loop ends in one of the
\* two, for every retry_attempts >= 0.
C30_SignInLoopTerminates ==
  /\ [](procs.attempt <= RetryAttemptsSetting)
  /\ [][/\ (procs.pc = "signing_in" /\ procs'.pc = "returned")
             => /\ procs'.attempt = procs.attempt + 1
                /\ procs'.profile_name \in DOMAIN _active_connections'
                /\ _active_connections'[procs'.profile_name] = "active"
        /\ (procs.pc = "signing_in" /\ procs'.pc = "raised")
             => /\ procs'.attempt = RetryAttemptsSetting
                /\ _active_connections' = _active_connections]_vars
  /\ (procs.pc = "signing_in") ~> (procs.pc \in {"returned", "raised"})

\* Two sign-in attempts were allowed and made, and both failed: the call
\* has raised ConnectionError and cached nothing.
C30_Witness ==
  /\ procs.pc = "raised"
  /\ RetryAttemptsSetting = 2
  /\ procs.attempt = 2
  /\ procs.profile_name \notin DOMAIN _active_connections

====
